---- MODULE Spec2Model ----
(***************************************************************************)
(* Model of the estimation engine of llm-cost-estimator                    *)
(* (src/src/estimator/estimator.ts).                                       *)
(*                                                                         *)
(* The engine is a library of synchronous functions over JavaScript        *)
(* numbers.  A number is modelled as an exact value                        *)
(*     n/d * 2^e2 * 5^e5      (n, d coprime, both coprime to 10)           *)
(* extended with the IEEE-754 specials +Infinity, -Infinity and NaN that   *)
(* the operators / and * produce.  Two things of IEEE doubles are outside  *)
(* the model: rounding (arithmetic is exact) and the sign of zero (no      *)
(* input is -0, and every divisor of the code is an input times a positive *)
(* constant).  An optional argument that is not supplied is the value      *)
(* Undefined.                                                              *)
(***************************************************************************)
EXTENDS Integers, Sequences, FiniteSets, TLC

VARIABLES gpus, op, args, result

vars == <<gpus, op, args, result>>

(***************************************************************************)
(* JavaScript numbers                                                      *)
(***************************************************************************)
RECURSIVE GCD(_, _)
GCD(a, b) == IF b = 0 THEN a ELSE GCD(b, a % b)

RECURSIVE IntPow(_, _)
IntPow(b, e) == IF e = 0 THEN 1 ELSE b * IntPow(b, e - 1)

\* how many times p divides n (n # 0)
RECURSIVE Multiplicity(_, _)
Multiplicity(n, p) == IF n % p = 0 THEN 1 + Multiplicity(n \div p, p) ELSE 0

Abs(i) == IF i < 0 THEN 0 - i ELSE i

Sgn(i) == IF i < 0 THEN 0 - 1 ELSE IF i > 0 THEN 1 ELSE 0

Min(i, j) == IF i <= j THEN i ELSE j

Zero == [k |-> "fin", n |-> 0, d |-> 1, e2 |-> 0, e5 |-> 0]

NaN == [k |-> "nan", n |-> 0, d |-> 1, e2 |-> 0, e5 |-> 0]

Infinity(sign) == [k |-> "inf", n |-> sign, d |-> 1, e2 |-> 0, e5 |-> 0]

Undefined == [k |-> "undefined", n |-> 0, d |-> 1, e2 |-> 0, e5 |-> 0]

\* the canonical form of n/d * 2^e2 * 5^e5, d > 0
Norm(n, d, e2, e5) ==
  IF n = 0 THEN Zero
  ELSE LET n2 == Multiplicity(n, 2)
           na == n \div IntPow(2, n2)
           n5 == Multiplicity(na, 5)
           nb == na \div IntPow(5, n5)
           d2 == Multiplicity(d, 2)
           da == d \div IntPow(2, d2)
           d5 == Multiplicity(da, 5)
           db == da \div IntPow(5, d5)
           g  == GCD(Abs(nb), db)
       IN [k |-> "fin", n |-> nb \div g, d |-> db \div g,
           e2 |-> e2 + n2 - d2, e5 |-> e5 + n5 - d5]

\* the number literal i, and the decimal literal n/d
Num(i) == Norm(i, 1, 0, 0)

Dec(n, d) == Norm(n, d, 0, 0)

IsNaN(a) == a.k = "nan"

IsFinite(a) == a.k = "fin"

\* -1, 0 or 1; NaN has no sign and is screened by the callers
Sign(a) == IF a.k = "nan" THEN 0 ELSE Sgn(a.n)

Neg(a) == [a EXCEPT !.n = 0 - a.n]

\* a * b
Mul(a, b) ==
  IF IsNaN(a) \/ IsNaN(b) THEN NaN
  ELSE IF a.k = "inf" \/ b.k = "inf"
       THEN IF Sign(a) * Sign(b) = 0 THEN NaN ELSE Infinity(Sign(a) * Sign(b))
  ELSE Norm(a.n * b.n, a.d * b.d, a.e2 + b.e2, a.e5 + b.e5)

\* a / b
Div(a, b) ==
  IF IsNaN(a) \/ IsNaN(b) THEN NaN
  ELSE IF a.k = "inf"
       THEN IF b.k = "inf" THEN NaN
            ELSE Infinity(IF Sign(b) < 0 THEN 0 - Sign(a) ELSE Sign(a))
  ELSE IF b.k = "inf" THEN Zero
  ELSE IF b.n = 0
       THEN IF a.n = 0 THEN NaN ELSE Infinity(Sign(a))
  ELSE Norm(a.n * b.d * Sgn(b.n), a.d * Abs(b.n), a.e2 - b.e2, a.e5 - b.e5)

\* a + b
Add(a, b) ==
  IF IsNaN(a) \/ IsNaN(b) THEN NaN
  ELSE IF a.k = "inf"
       THEN IF b.k = "inf" /\ b.n # a.n THEN NaN ELSE a
  ELSE IF b.k = "inf" THEN b
  ELSE IF a.n = 0 THEN b
  ELSE IF b.n = 0 THEN a
  ELSE LET e2 == Min(a.e2, b.e2)
           e5 == Min(a.e5, b.e5)
       IN Norm(a.n * b.d * IntPow(2, a.e2 - e2) * IntPow(5, a.e5 - e5)
                 + b.n * a.d * IntPow(2, b.e2 - e2) * IntPow(5, b.e5 - e5),
               a.d * b.d, e2, e5)

\* a - b
Sub(a, b) == Add(a, Neg(b))

\* a ** e for a natural exponent
RECURSIVE Pow(_, _)
Pow(a, e) == IF e = 0 THEN Num(1) ELSE Mul(a, Pow(a, e - 1))

\* the order of two numbers that are not NaN: -1, 0 or 1
Cmp(a, b) ==
  IF Sign(a) # Sign(b) THEN Sgn(Sign(a) - Sign(b))
  ELSE IF a.k = "inf" \/ b.k = "inf"
       THEN IF a.k = b.k THEN 0 ELSE IF a.k = "inf" THEN Sign(a) ELSE 0 - Sign(b)
  ELSE Sign(Sub(a, b))

\* the comparison operators: false as soon as one side is NaN
Lt(a, b) == ~IsNaN(a) /\ ~IsNaN(b) /\ Cmp(a, b) < 0

Le(a, b) == ~IsNaN(a) /\ ~IsNaN(b) /\ Cmp(a, b) <= 0

Ge(a, b) == Le(b, a)

\* Math.max(a, b)
MathMax(a, b) ==
  IF IsNaN(a) \/ IsNaN(b) THEN NaN ELSE IF Cmp(a, b) >= 0 THEN a ELSE b

\* a ?? b
Coalesce(a, b) == IF a = Undefined THEN b ELSE a

(***************************************************************************)
(* Module constants                                                        *)
(***************************************************************************)
BYTES_PER_GB == Pow(Num(1024), 3)

DEFAULT_ACTIVATION_MULTIPLIER == [inference |-> Dec(2, 10), training |-> Num(2)]

OPTIMIZER_MULTIPLIER ==
  [none |-> Num(0), adam |-> Num(4), adamw |-> Num(4), lamb |-> Num(4),
   adafactor |-> Dec(15, 10)]

DEFAULT_OVERHEAD == Dec(115, 100)

(***************************************************************************)
(* The outcome of a call: a returned value or a thrown Error               *)
(***************************************************************************)
NoValue == <<>>

Return(v) == [threw |-> FALSE, error |-> "", value |-> v]

Throw(message) == [threw |-> TRUE, error |-> message, value |-> NoValue]

(***************************************************************************)
(* Memory breakdown                                                        *)
(***************************************************************************)
bitsToBytes(bits) == Div(bits, Num(8))

calculateWeightMemoryGB(parameterCount, weightPrecisionBits) ==
  IF Le(parameterCount, Zero) THEN Zero
  ELSE LET bytes == Mul(parameterCount, bitsToBytes(weightPrecisionBits))
       IN Div(bytes, BYTES_PER_GB)

calculateActivationMemoryGB(parameterCount, weightPrecisionBits, mode, activationMultiplierOverride) ==
  IF Le(parameterCount, Zero) THEN Zero
  ELSE LET multiplier == Coalesce(activationMultiplierOverride,
                                  DEFAULT_ACTIVATION_MULTIPLIER[mode])
           weightMemoryGB ==
             calculateWeightMemoryGB(parameterCount, weightPrecisionBits)
       IN Mul(weightMemoryGB, multiplier)

\* mutant: the factor 2 for keys and values is missing
calculateKvCacheMemoryGB_KeysOnly(in) ==
  IF \/ Le(in.sequenceLength, Zero)
     \/ Le(in.batchSize, Zero)
     \/ Le(in.numLayers, Zero)
     \/ Le(in.hiddenSize, Zero)
  THEN Zero
  ELSE LET bytesPerElement == bitsToBytes(in.precisionBits)
           kvPerToken == Mul(Mul(in.numLayers, in.hiddenSize), bytesPerElement)
           totalBytes == Mul(Mul(kvPerToken, in.sequenceLength), in.batchSize)
       IN Div(totalBytes, BYTES_PER_GB)

calculateKvCacheMemoryGB(in) ==
  IF \/ Le(in.sequenceLength, Zero)
     \/ Le(in.batchSize, Zero)
     \/ Le(in.numLayers, Zero)
     \/ Le(in.hiddenSize, Zero)
  THEN Zero
  ELSE LET bytesPerElement == bitsToBytes(in.precisionBits)
           kvPerToken ==
             Mul(Mul(Mul(Num(2), in.numLayers), in.hiddenSize), bytesPerElement)
           totalBytes == Mul(Mul(kvPerToken, in.sequenceLength), in.batchSize)
       IN Div(totalBytes, BYTES_PER_GB)

calculateOptimizerMemoryGB(parameterCount, weightPrecisionBits, optimizer) ==
  IF Le(parameterCount, Zero) THEN Zero
  ELSE LET multiplier ==
             IF optimizer \in DOMAIN OPTIMIZER_MULTIPLIER
             THEN OPTIMIZER_MULTIPLIER[optimizer] ELSE Num(0)
           weightBytes == Mul(parameterCount, bitsToBytes(weightPrecisionBits))
           optimizerBytes == Mul(weightBytes, multiplier)
       IN Div(optimizerBytes, BYTES_PER_GB)

\* mutant: a supplied optimizer is ignored
optimizerOrDefault_IgnoresSupplied(input) ==
  IF input.mode = "training" THEN "adamw" ELSE "none"

\* the default values of estimateMemory's destructured parameters
optimizerOrDefault(input) ==
  IF input.optimizer = "undefined"
  THEN (IF input.mode = "training" THEN "adamw" ELSE "none")
  ELSE input.optimizer

overheadFactorOrDefault(input) ==
  Coalesce(input.overheadFactor, DEFAULT_OVERHEAD)

\* mutant: the KV cache is counted in training mode too
kvCacheGBOf_AnyMode(input) ==
  calculateKvCacheMemoryGB(
    [sequenceLength |-> input.sequenceLength,
     batchSize      |-> input.batchSize,
     numLayers      |-> input.numLayers,
     hiddenSize     |-> input.hiddenSize,
     precisionBits  |-> Coalesce(input.kvCachePrecisionBits,
                                 input.weightPrecisionBits)])

\* const kvCacheGB = mode === 'inference' ? calculateKvCacheMemoryGB(..) : 0
kvCacheGBOf(input) ==
  IF input.mode = "inference"
  THEN calculateKvCacheMemoryGB(
         [sequenceLength |-> input.sequenceLength,
          batchSize      |-> input.batchSize,
          numLayers      |-> input.numLayers,
          hiddenSize     |-> input.hiddenSize,
          precisionBits  |-> Coalesce(input.kvCachePrecisionBits,
                                      input.weightPrecisionBits)])
  ELSE Zero

\* const optimizerGB = mode === 'training' ? calculateOptimizerMemoryGB(..) : 0
optimizerGBOf(input) ==
  IF input.mode = "training"
  THEN calculateOptimizerMemoryGB(input.parameterCount,
                                  input.weightPrecisionBits,
                                  optimizerOrDefault(input))
  ELSE Zero

\* mutant: the KV cache is left out of the base total
MemoryBreakdown_NoKvCache(weightsGB, activationsGB, kvCacheGB, optimizerGB, overheadFactor) ==
  LET baseTotalGB == Add(Add(weightsGB, activationsGB), optimizerGB)
      overheadGB == Mul(baseTotalGB, Sub(overheadFactor, Num(1)))
      totalGB == Add(baseTotalGB, overheadGB)
  IN [weightsGB     |-> weightsGB,
      activationsGB |-> activationsGB,
      kvCacheGB     |-> kvCacheGB,
      optimizerGB   |-> optimizerGB,
      baseTotalGB   |-> baseTotalGB,
      overheadGB    |-> overheadGB,
      totalGB       |-> totalGB]

\* mutant: baseTotalGB * overheadFactor - 1 for baseTotalGB * (overheadFactor - 1)
MemoryBreakdown_PrecedenceSlip(weightsGB, activationsGB, kvCacheGB, optimizerGB, overheadFactor) ==
  LET baseTotalGB ==
        Add(Add(Add(weightsGB, activationsGB), kvCacheGB), optimizerGB)
      overheadGB == Sub(Mul(baseTotalGB, overheadFactor), Num(1))
      totalGB == Add(baseTotalGB, overheadGB)
  IN [weightsGB     |-> weightsGB,
      activationsGB |-> activationsGB,
      kvCacheGB     |-> kvCacheGB,
      optimizerGB   |-> optimizerGB,
      baseTotalGB   |-> baseTotalGB,
      overheadGB    |-> overheadGB,
      totalGB       |-> totalGB]

\* the totals and the returned record
MemoryBreakdown(weightsGB, activationsGB, kvCacheGB, optimizerGB, overheadFactor) ==
  LET baseTotalGB ==
        Add(Add(Add(weightsGB, activationsGB), kvCacheGB), optimizerGB)
      overheadGB == Mul(baseTotalGB, Sub(overheadFactor, Num(1)))
      totalGB == Add(baseTotalGB, overheadGB)
  IN [weightsGB     |-> weightsGB,
      activationsGB |-> activationsGB,
      kvCacheGB     |-> kvCacheGB,
      optimizerGB   |-> optimizerGB,
      baseTotalGB   |-> baseTotalGB,
      overheadGB    |-> overheadGB,
      totalGB       |-> totalGB]

\* mutant: parameterCount = 0 is rejected as well
estimateMemory_RejectsZero(input) ==
  IF Le(input.parameterCount, Zero)
  THEN Throw("parameterCount must be non-negative")
  ELSE Return(MemoryBreakdown(
         calculateWeightMemoryGB(input.parameterCount,
                                 input.weightPrecisionBits),
         calculateActivationMemoryGB(input.parameterCount,
                                     input.weightPrecisionBits,
                                     input.mode,
                                     input.activationMultiplierOverride),
         kvCacheGBOf(input),
         optimizerGBOf(input),
         overheadFactorOrDefault(input)))

estimateMemory(input) ==
  IF Lt(input.parameterCount, Zero)
  THEN Throw("parameterCount must be non-negative")
  ELSE Return(MemoryBreakdown(
         calculateWeightMemoryGB(input.parameterCount,
                                 input.weightPrecisionBits),
         calculateActivationMemoryGB(input.parameterCount,
                                     input.weightPrecisionBits,
                                     input.mode,
                                     input.activationMultiplierOverride),
         kvCacheGBOf(input),
         optimizerGBOf(input),
         overheadFactorOrDefault(input)))

(***************************************************************************)
(* Cost and GPU recommendation                                             *)
(***************************************************************************)
\* mutant: a zero rate or duration is rejected as well
estimateCloudCost_RejectsZero(input) ==
  IF Le(input.hourlyRate, Zero) \/ Le(input.durationHours, Zero)
  THEN Throw("hourlyRate and durationHours must be non-negative")
  ELSE Return([hourlyRate    |-> input.hourlyRate,
               durationHours |-> input.durationHours,
               totalCost     |-> Mul(input.hourlyRate, input.durationHours)])

estimateCloudCost(input) ==
  IF Lt(input.hourlyRate, Zero) \/ Lt(input.durationHours, Zero)
  THEN Throw("hourlyRate and durationHours must be non-negative")
  ELSE Return([hourlyRate    |-> input.hourlyRate,
               durationHours |-> input.durationHours,
               totalCost     |-> Mul(input.hourlyRate, input.durationHours)])

\* ToIntegerOrInfinity of a finite number: truncation towards zero
Truncate(a) ==
  LET num == a.n * IntPow(2, IF a.e2 > 0 THEN a.e2 ELSE 0)
                 * IntPow(5, IF a.e5 > 0 THEN a.e5 ELSE 0)
      den == a.d * IntPow(2, IF a.e2 < 0 THEN 0 - a.e2 ELSE 0)
                 * IntPow(5, IF a.e5 < 0 THEN 0 - a.e5 ELSE 0)
  IN Sgn(num) * (Abs(num) \div den)

\* Array.prototype.slice(0, end)
SliceTo(list, end) ==
  LET len == Len(list)
      final == IF IsNaN(end) THEN 0
               ELSE IF end.k = "inf" THEN (IF Sign(end) > 0 THEN len ELSE 0)
               ELSE LET relativeEnd == Truncate(end)
                    IN IF relativeEnd < 0
                       THEN (IF len + relativeEnd < 0 THEN 0 ELSE len + relativeEnd)
                       ELSE Min(relativeEnd, len)
  IN SubSeq(list, 1, final)

\* Array.prototype.filter with gpu.memoryHeadroomGB >= 0
RECURSIVE FilterFits(_)
FilterFits(list) ==
  IF list = <<>> THEN <<>>
  ELSE IF Ge(Head(list).memoryHeadroomGB, Zero)
       THEN <<Head(list)>> \o FilterFits(Tail(list))
       ELSE FilterFits(Tail(list))

\* Array.prototype.sort with (a, b) => a.memoryHeadroomGB - b.memoryHeadroomGB:
\* the sort is stable, an entry goes after every entry it does not precede
RECURSIVE InsertByHeadroom(_, _)
InsertByHeadroom(sorted, x) ==
  IF sorted = <<>> THEN <<x>>
  ELSE IF Sign(Sub(x.memoryHeadroomGB, Head(sorted).memoryHeadroomGB)) < 0
       THEN <<x>> \o sorted
       ELSE <<Head(sorted)>> \o InsertByHeadroom(Tail(sorted), x)

RECURSIVE SortByHeadroom(_)
SortByHeadroom(list) ==
  IF list = <<>> THEN <<>>
  ELSE InsertByHeadroom(SortByHeadroom(SubSeq(list, 1, Len(list) - 1)),
                        list[Len(list)])

\* gpus.map(gpu => ({...}))
MapHeadroom(table, requiredMemoryGB) ==
  [i \in DOMAIN table |->
     [name             |-> table[i].name,
      memoryGB         |-> table[i].memory_gb,
      fp32TFlops       |-> table[i].fp32_tflops,
      memoryHeadroomGB |-> Sub(table[i].memory_gb, requiredMemoryGB)]]

\* mutant: the result is not sorted
recommendGpus_NoSort(table, requiredMemoryGB, maxResults) ==
  IF Le(requiredMemoryGB, Zero) THEN <<>>
  ELSE SliceTo(FilterFits(MapHeadroom(table, requiredMemoryGB)),
               Coalesce(maxResults, Num(3)))

\* mutant: the early return for requiredMemoryGB <= 0 is missing
recommendGpus_NoGuard(table, requiredMemoryGB, maxResults) ==
  SliceTo(SortByHeadroom(FilterFits(MapHeadroom(table, requiredMemoryGB))),
          Coalesce(maxResults, Num(3)))

\* mutant: the GPUs that do not fit are not filtered out
recommendGpus_NoFilter(table, requiredMemoryGB, maxResults) ==
  IF Le(requiredMemoryGB, Zero) THEN <<>>
  ELSE SliceTo(SortByHeadroom(MapHeadroom(table, requiredMemoryGB)),
               Coalesce(maxResults, Num(3)))

\* mutant: the list is cut to maxResults before it is sorted
recommendGpus_SliceFirst(table, requiredMemoryGB, maxResults) ==
  IF Le(requiredMemoryGB, Zero) THEN <<>>
  ELSE SortByHeadroom(SliceTo(FilterFits(MapHeadroom(table, requiredMemoryGB)),
                              Coalesce(maxResults, Num(3))))

recommendGpus(table, requiredMemoryGB, maxResults) ==
  IF Le(requiredMemoryGB, Zero) THEN <<>>
  ELSE SliceTo(SortByHeadroom(FilterFits(MapHeadroom(table, requiredMemoryGB))),
               Coalesce(maxResults, Num(3)))

\* mutant: sort is applied to the imported array itself, which it reorders
TableAfterRecommendGpus_SortsInPlace(table, requiredMemoryGB) ==
  LET sorted == SortByHeadroom(MapHeadroom(table, requiredMemoryGB))
  IN [i \in DOMAIN sorted |->
        [name        |-> sorted[i].name,
         memory_gb   |-> sorted[i].memoryGB,
         fp32_tflops |-> sorted[i].fp32TFlops]]

\* mutant: the GPUs that do not fit are removed from the imported array
TableAfterRecommendGpus_FiltersInPlace(table, requiredMemoryGB) ==
  LET kept == FilterFits(MapHeadroom(table, requiredMemoryGB))
  IN [i \in DOMAIN kept |->
        [name        |-> kept[i].name,
         memory_gb   |-> kept[i].memoryGB,
         fp32_tflops |-> kept[i].fp32TFlops]]

\* the imported array after a call of recommendGpus: map and filter build new
\* arrays, sort reorders the array filter built and slice copies, so the
\* imported array is as it was
TableAfterRecommendGpus(table, requiredMemoryGB) == table

(***************************************************************************)
(* Inference time and training cost                                        *)
(***************************************************************************)
\* mutant: compute and memory time are added up
estimateInferenceTime_Sum(flops, gpu_tflops, num_params, memory_bandwidth, overhead_factor, bytes_per_param) ==
  LET gpu_flops_val == Mul(gpu_tflops, Pow(Num(10), 12))
      compute_time == Div(Mul(flops, Pow(Num(10), 9)), gpu_flops_val)
      memory_bandwidth_bytes == Mul(memory_bandwidth, Pow(Num(1024), 3))
      memory_time == Div(Mul(num_params, bytes_per_param), memory_bandwidth_bytes)
  IN Mul(Add(compute_time, memory_time), overhead_factor)

estimateInferenceTime(flops, gpu_tflops, num_params, memory_bandwidth, overhead_factor, bytes_per_param) ==
  LET gpu_flops_val == Mul(gpu_tflops, Pow(Num(10), 12))
      compute_time == Div(Mul(flops, Pow(Num(10), 9)), gpu_flops_val)
      memory_bandwidth_bytes == Mul(memory_bandwidth, Pow(Num(1024), 3))
      memory_time == Div(Mul(num_params, bytes_per_param), memory_bandwidth_bytes)
      inference_time == Mul(MathMax(compute_time, memory_time), overhead_factor)
  IN inference_time

\* mutant: the gradient bytes are left out of the bytes per parameter
estimateTrainingCost_NoGradientBytes(inference_gflops_per_sequence, gpu_tflops, num_params, memory_bandwidth, overhead_factor, gpu_hourly_cost, num_epochs, dataset_size, model_precision_bits) ==
  LET training_gflops_per_sequence == Mul(inference_gflops_per_sequence, Num(3))
      model_precision_bytes == Div(model_precision_bits, Num(8))
      optimizer_states_bytes == Num(8)
      bytes_per_param_training_effective ==
        Add(model_precision_bytes, optimizer_states_bytes)
      time_per_item ==
        estimateInferenceTime(training_gflops_per_sequence, gpu_tflops,
                              num_params, memory_bandwidth, overhead_factor,
                              bytes_per_param_training_effective)
      total_time == Mul(Mul(time_per_item, dataset_size), num_epochs)
      total_time_hours == Div(total_time, Num(3600))
  IN Mul(total_time_hours, gpu_hourly_cost)

estimateTrainingCost(inference_gflops_per_sequence, gpu_tflops, num_params, memory_bandwidth, overhead_factor, gpu_hourly_cost, num_epochs, dataset_size, model_precision_bits) ==
  LET training_gflops_per_sequence == Mul(inference_gflops_per_sequence, Num(3))
      model_precision_bytes == Div(model_precision_bits, Num(8))
      gradient_precision_bytes == Div(model_precision_bits, Num(8))
      optimizer_states_bytes == Num(8)
      bytes_per_param_training_effective ==
        Add(Add(model_precision_bytes, gradient_precision_bytes),
            optimizer_states_bytes)
      time_per_item ==
        estimateInferenceTime(training_gflops_per_sequence, gpu_tflops,
                              num_params, memory_bandwidth, overhead_factor,
                              bytes_per_param_training_effective)
      total_time == Mul(Mul(time_per_item, dataset_size), num_epochs)
      total_time_hours == Div(total_time, Num(3600))
      total_cost == Mul(total_time_hours, gpu_hourly_cost)
  IN total_cost

(***************************************************************************)
(* Throughput, decoder FLOPs and the legacy GPU tiers                      *)
(***************************************************************************)
DEFAULT_EFFICIENCY == Dec(3, 10)

ZeroThroughput == [tokensPerSecond |-> Zero, millisecondsPerToken |-> Zero]

\* mutant: an omitted efficiency counts as 1
estimateThroughput_FullEfficiency(input) ==
  LET efficiency == Coalesce(input.efficiency, Num(1))
  IN IF \/ Le(input.parameterCount, Zero)
        \/ Le(input.gpuTFlops, Zero)
        \/ Le(efficiency, Zero)
     THEN ZeroThroughput
     ELSE LET flopsPerToken == Mul(input.parameterCount, Num(2))
              effectiveFlopsPerSecond ==
                Mul(Mul(input.gpuTFlops, Pow(Num(10), 12)), efficiency)
              tokensPerSecond == Div(effectiveFlopsPerSecond, flopsPerToken)
              millisecondsPerToken ==
                IF tokensPerSecond # Zero /\ ~IsNaN(tokensPerSecond)
                THEN Div(Num(1000), tokensPerSecond) ELSE Zero
          IN [tokensPerSecond      |-> tokensPerSecond,
              millisecondsPerToken |-> millisecondsPerToken]

estimateThroughput(input) ==
  LET efficiency == Coalesce(input.efficiency, DEFAULT_EFFICIENCY)
  IN IF \/ Le(input.parameterCount, Zero)
        \/ Le(input.gpuTFlops, Zero)
        \/ Le(efficiency, Zero)
     THEN ZeroThroughput
     ELSE LET flopsPerToken == Mul(input.parameterCount, Num(2))
              effectiveFlopsPerSecond ==
                Mul(Mul(input.gpuTFlops, Pow(Num(10), 12)), efficiency)
              tokensPerSecond == Div(effectiveFlopsPerSecond, flopsPerToken)
              millisecondsPerToken ==
                IF tokensPerSecond # Zero /\ ~IsNaN(tokensPerSecond)
                THEN Div(Num(1000), tokensPerSecond) ELSE Zero
          IN [tokensPerSecond      |-> tokensPerSecond,
              millisecondsPerToken |-> millisecondsPerToken]

\* mutant: the feed-forward term has the factor of the attention term
estimateDecoderFlops_SmallMlp(input) ==
  IF \/ Le(input.numLayers, Zero)
     \/ Le(input.hiddenSize, Zero)
     \/ Le(input.sequenceLength, Zero)
     \/ Le(input.vocabSize, Zero)
  THEN Zero
  ELSE LET square == Pow(input.hiddenSize, 2)
           attentionFlops ==
             Mul(Mul(Mul(Num(4), input.numLayers), input.sequenceLength), square)
           mlpFlops ==
             Mul(Mul(Mul(Num(4), input.numLayers), input.sequenceLength), square)
           projectionFlops ==
             Mul(Mul(Mul(Num(2), input.sequenceLength), input.hiddenSize),
                 input.vocabSize)
       IN Add(Add(attentionFlops, mlpFlops), projectionFlops)

estimateDecoderFlops(input) ==
  IF \/ Le(input.numLayers, Zero)
     \/ Le(input.hiddenSize, Zero)
     \/ Le(input.sequenceLength, Zero)
     \/ Le(input.vocabSize, Zero)
  THEN Zero
  ELSE LET square == Pow(input.hiddenSize, 2)
           attentionFlops ==
             Mul(Mul(Mul(Num(4), input.numLayers), input.sequenceLength), square)
           mlpFlops ==
             Mul(Mul(Mul(Num(8), input.numLayers), input.sequenceLength), square)
           projectionFlops ==
             Mul(Mul(Mul(Num(2), input.sequenceLength), input.hiddenSize),
                 input.vocabSize)
       IN Add(Add(attentionFlops, mlpFlops), projectionFlops)

\* mutant: the ceilings are exclusive
recommendGPU_Exclusive(memoryInGB, flops) ==
  IF Lt(memoryInGB, Num(8)) /\ Lt(flops, Pow(Num(10), 9))
  THEN "Minimum recommendation: NVIDIA GTX 1060 6GB"
  ELSE IF Lt(memoryInGB, Num(11)) /\ Lt(flops, Mul(Num(2), Pow(Num(10), 9)))
  THEN "Minimum recommendation: NVIDIA GTX 1080 Ti"
  ELSE IF Lt(memoryInGB, Num(24)) /\ Lt(flops, Mul(Num(5), Pow(Num(10), 9)))
  THEN "Minimum recommendation: NVIDIA RTX 2080 Ti"
  ELSE "Minimum recommendation: NVIDIA A100 or higher"

recommendGPU(memoryInGB, flops) ==
  IF Le(memoryInGB, Num(8)) /\ Le(flops, Pow(Num(10), 9))
  THEN "Minimum recommendation: NVIDIA GTX 1060 6GB"
  ELSE IF Le(memoryInGB, Num(11)) /\ Le(flops, Mul(Num(2), Pow(Num(10), 9)))
  THEN "Minimum recommendation: NVIDIA GTX 1080 Ti"
  ELSE IF Le(memoryInGB, Num(24)) /\ Le(flops, Mul(Num(5), Pow(Num(10), 9)))
  THEN "Minimum recommendation: NVIDIA RTX 2080 Ti"
  ELSE "Minimum recommendation: NVIDIA A100 or higher"

(***************************************************************************)
(* Architecture estimates                                                  *)
(***************************************************************************)
\* Math.floor of a finite number, as an integer
Floor(a) ==
  LET t == Truncate(a)
  IN IF Sign(a) < 0 /\ Num(t) # a THEN t - 1 ELSE t

\* Math.round(a): the integer nearest to a, halves rounded up
MathRound(a) == IF IsFinite(a) THEN Num(Floor(Add(a, Dec(1, 2)))) ELSE a

\* the truthiness of a number or undefined
Truthy(a) == a # Undefined /\ ~IsNaN(a) /\ a # Zero

LLAMA_STYLE_ARCHETYPES_Unordered ==
  << [maxBillions |-> Dec(15, 10), hiddenSize |-> Num(2048), numLayers |-> Num(24)],
     [maxBillions |-> Dec(35, 10), hiddenSize |-> Num(2560), numLayers |-> Num(28)],
     [maxBillions |-> Num(8), hiddenSize |-> Num(4096), numLayers |-> Num(32)],
     [maxBillions |-> Num(16), hiddenSize |-> Num(4096), numLayers |-> Num(30)],
     [maxBillions |-> Num(40), hiddenSize |-> Num(6656), numLayers |-> Num(60)],
     [maxBillions |-> Num(80), hiddenSize |-> Num(8192), numLayers |-> Num(80)],
     [maxBillions |-> Infinity(1), hiddenSize |-> Num(10240), numLayers |-> Num(96)] >>

LLAMA_STYLE_ARCHETYPES ==
  << [maxBillions |-> Dec(15, 10), hiddenSize |-> Num(2048), numLayers |-> Num(24)],
     [maxBillions |-> Dec(35, 10), hiddenSize |-> Num(2560), numLayers |-> Num(28)],
     [maxBillions |-> Num(8), hiddenSize |-> Num(4096), numLayers |-> Num(32)],
     [maxBillions |-> Num(16), hiddenSize |-> Num(5120), numLayers |-> Num(40)],
     [maxBillions |-> Num(40), hiddenSize |-> Num(6656), numLayers |-> Num(60)],
     [maxBillions |-> Num(80), hiddenSize |-> Num(8192), numLayers |-> Num(80)],
     [maxBillions |-> Infinity(1), hiddenSize |-> Num(10240), numLayers |-> Num(96)] >>

\* mutant: the 16-billion bucket is shallower than the one before it
ZeroArchitecture ==
  [hiddenSize |-> Zero, numLayers |-> Zero, numHeads |-> Zero,
   intermediateSize |-> Zero]

\* Array.prototype.find: the index of the first entry the predicate holds
\* for, which is given as the set of indices it holds for; 0 when none
FindFirst(hits) ==
  IF hits = {} THEN 0 ELSE CHOOSE i \in hits : \A j \in hits : i <= j

\* the estimate built from the archetype at an index; 0 is no archetype
ArchitectureOf(index) ==
  IF index = 0 THEN ZeroArchitecture
  ELSE LET hiddenSize == LLAMA_STYLE_ARCHETYPES[index].hiddenSize
           numLayers == LLAMA_STYLE_ARCHETYPES[index].numLayers
           numHeads == MathMax(Num(1), MathRound(Div(hiddenSize, Num(128))))
           intermediateSize == Mul(hiddenSize, Num(4))
       IN [hiddenSize |-> hiddenSize, numLayers |-> numLayers,
           numHeads |-> numHeads, intermediateSize |-> intermediateSize]

\* mutant: the bucket boundary is exclusive
estimateLlamaStyleArchitecture_Exclusive(parameterCount) ==
  IF ~IsFinite(parameterCount) \/ Le(parameterCount, Zero)
  THEN ZeroArchitecture
  ELSE LET paramsInBillions == Div(parameterCount, Pow(Num(10), 9))
       IN ArchitectureOf(FindFirst(
            {i \in DOMAIN LLAMA_STYLE_ARCHETYPES :
               Lt(paramsInBillions, LLAMA_STYLE_ARCHETYPES[i].maxBillions)}))

estimateLlamaStyleArchitecture(parameterCount) ==
  IF ~IsFinite(parameterCount) \/ Le(parameterCount, Zero)
  THEN ZeroArchitecture
  ELSE LET paramsInBillions == Div(parameterCount, Pow(Num(10), 9))
       IN ArchitectureOf(FindFirst(
            {i \in DOMAIN LLAMA_STYLE_ARCHETYPES :
               Le(paramsInBillions, LLAMA_STYLE_ARCHETYPES[i].maxBillions)}))

\* mutant: intermediateSize falls back to hiddenSize * 4 only when it is unset
estimateTransformerParameters_UnsetOnly(config) ==
  IF \/ Le(config.vocabSize, Zero) \/ Le(config.hiddenSize, Zero)
     \/ Le(config.numLayers, Zero) \/ Le(config.numAttentionHeads, Zero)
  THEN Zero
  ELSE LET hiddenSize == config.hiddenSize
           kvHeads == Coalesce(config.numKeyValueHeads, config.numAttentionHeads)
           kvHeadDim == Div(hiddenSize, kvHeads)
           embeddingParams == Mul(config.vocabSize, hiddenSize)
           qkvParams == Add(Mul(hiddenSize, hiddenSize),
                            Mul(Mul(Mul(hiddenSize, kvHeadDim), kvHeads), Num(2)))
           attentionOutputParams == Mul(hiddenSize, hiddenSize)
           attnParamsPerLayer == Add(qkvParams, attentionOutputParams)
           effectiveIntermediate ==
             Coalesce(config.intermediateSize, Mul(hiddenSize, Num(4)))
           mlpParamsPerLayer == Mul(Mul(hiddenSize, effectiveIntermediate), Num(2))
           normParamsPerLayer == Mul(hiddenSize, Num(2))
           layerParams == Add(Add(Mul(attnParamsPerLayer, Num(2)), mlpParamsPerLayer),
                              Mul(normParamsPerLayer, Num(2)))
       IN Add(embeddingParams, Mul(config.numLayers, layerParams))

estimateTransformerParameters(config) ==
  IF \/ Le(config.vocabSize, Zero) \/ Le(config.hiddenSize, Zero)
     \/ Le(config.numLayers, Zero) \/ Le(config.numAttentionHeads, Zero)
  THEN Zero
  ELSE LET hiddenSize == config.hiddenSize
           kvHeads == Coalesce(config.numKeyValueHeads, config.numAttentionHeads)
           kvHeadDim == Div(hiddenSize, kvHeads)
           embeddingParams == Mul(config.vocabSize, hiddenSize)
           qkvParams == Add(Mul(hiddenSize, hiddenSize),
                            Mul(Mul(Mul(hiddenSize, kvHeadDim), kvHeads), Num(2)))
           attentionOutputParams == Mul(hiddenSize, hiddenSize)
           attnParamsPerLayer == Add(qkvParams, attentionOutputParams)
           effectiveIntermediate ==
             IF Truthy(config.intermediateSize) /\ Lt(Zero, config.intermediateSize)
             THEN config.intermediateSize
             ELSE Mul(hiddenSize, Num(4))
           mlpHidden == effectiveIntermediate
           mlpParamsPerLayer == Mul(Mul(hiddenSize, mlpHidden), Num(2))
           normParamsPerLayer == Mul(hiddenSize, Num(2))
           layerParams == Add(Add(Mul(attnParamsPerLayer, Num(2)), mlpParamsPerLayer),
                              Mul(normParamsPerLayer, Num(2)))
       IN Add(embeddingParams, Mul(config.numLayers, layerParams))

(***************************************************************************)
(* binary64.  The numbers above are exact; a JavaScript number is an       *)
(* IEEE 754 double, and each operation on doubles is rounded to 53         *)
(* significant bits, to nearest, ties to even.  A double is a sign s, a    *)
(* significand m of 53 bits and the exponent e of its last bit: its value  *)
(* is s * m * 2^e, and the significand of zero is empty.  The helper       *)
(* functions are evaluated in this arithmetic.  Overflow, subnormals, the  *)
(* sign of zero and division by zero are outside it.                       *)
(***************************************************************************)
SignificandBits == 53

\* a natural number is a sequence of digits, least significant first, with
\* no zero at its end
DigitBits == 13

Base == IntPow(2, DigitBits)

RECURSIVE BigOf(_)
BigOf(n) == IF n = 0 THEN <<>> ELSE <<n % Base>> \o BigOf(n \div Base)

RECURSIVE BigTrim(_)
BigTrim(a) ==
  IF a # <<>> /\ a[Len(a)] = 0 THEN BigTrim(SubSeq(a, 1, Len(a) - 1)) ELSE a

DigitAt(a, i) == IF i \in DOMAIN a THEN a[i] ELSE 0

ZeroDigits(count) == [i \in 1..count |-> 0]

RECURSIVE BigAddFrom(_, _, _, _)
BigAddFrom(a, b, i, carry) ==
  IF i > Len(a) /\ i > Len(b) THEN (IF carry = 0 THEN <<>> ELSE <<carry>>)
  ELSE LET sum == DigitAt(a, i) + DigitAt(b, i) + carry
       IN <<sum % Base>> \o BigAddFrom(a, b, i + 1, sum \div Base)

BigAdd(a, b) == BigAddFrom(a, b, 1, 0)

RECURSIVE BigSubFrom(_, _, _, _)
BigSubFrom(a, b, i, borrow) ==
  IF i > Len(a) THEN <<>>
  ELSE LET diff == DigitAt(a, i) - DigitAt(b, i) - borrow
       IN <<(diff + Base) % Base>>
            \o BigSubFrom(a, b, i + 1, IF diff < 0 THEN 1 ELSE 0)

\* a - b for a >= b
BigSub(a, b) == BigTrim(BigSubFrom(a, b, 1, 0))

\* the order of two naturals: -1, 0 or 1
BigCmp(a, b) ==
  IF Len(a) # Len(b) THEN Sgn(Len(a) - Len(b))
  ELSE LET differ == {i \in DOMAIN a : a[i] # b[i]}
       IN IF differ = {} THEN 0
          ELSE LET top == CHOOSE i \in differ : \A j \in differ : j <= i
               IN IF a[top] > b[top] THEN 1 ELSE 0 - 1

\* a * digit for a digit
RECURSIVE BigScaleFrom(_, _, _, _)
BigScaleFrom(a, digit, i, carry) ==
  IF i > Len(a) THEN (IF carry = 0 THEN <<>> ELSE <<carry>>)
  ELSE LET product == a[i] * digit + carry
       IN <<product % Base>> \o BigScaleFrom(a, digit, i + 1, product \div Base)

BigScale(a, digit) == BigTrim(BigScaleFrom(a, digit, 1, 0))

RECURSIVE BigMul(_, _)
BigMul(a, b) ==
  IF a = <<>> \/ b = <<>> THEN <<>>
  ELSE LET rest == BigMul(Tail(a), b)
       IN BigAdd(BigScale(b, Head(a)), IF rest = <<>> THEN <<>> ELSE <<0>> \o rest)

\* a * 2^count
BigShiftLeft(a, count) ==
  IF a = <<>> THEN <<>>
  ELSE ZeroDigits(count \div DigitBits) \o BigScale(a, IntPow(2, count % DigitBits))

\* a \div 2^count
BigShiftRight(a, count) ==
  LET whole == SubSeq(a, (count \div DigitBits) + 1, Len(a))
      part == IntPow(2, count % DigitBits)
  IN BigTrim([i \in DOMAIN whole |->
                (whole[i] \div part) + (DigitAt(whole, i + 1) % part) * (Base \div part)])

\* the number of bits of a, and its bit at a position, counted from 1
BigBitLen(a) ==
  IF a = <<>> THEN 0
  ELSE (Len(a) - 1) * DigitBits
         + (CHOOSE k \in 1..DigitBits :
              IntPow(2, k - 1) <= a[Len(a)] /\ a[Len(a)] < IntPow(2, k))

BigBit(a, position) ==
  (DigitAt(a, ((position - 1) \div DigitBits) + 1)
     \div IntPow(2, (position - 1) % DigitBits)) % 2

\* the number of zero bits a > 0 ends with
BigTrailingZeros(a) ==
  (CHOOSE position \in 1..BigBitLen(a) :
     /\ BigBit(a, position) = 1
     /\ \A lower \in 1..(position - 1) : BigBit(a, lower) = 0) - 1

\* long division by a small natural d of the digits i..1 of n, with r the
\* remainder and q the quotient so far
RECURSIVE BigDivSmallFrom(_, _, _, _, _)
BigDivSmallFrom(n, d, i, r, q) ==
  IF i = 0 THEN [q |-> BigTrim(q), r |-> r]
  ELSE LET t == r * Base + n[i]
       IN BigDivSmallFrom(n, d, i - 1, t % d, <<t \div d>> \o q)

BigDivSmall(n, d) == BigDivSmallFrom(n, d, Len(n), 0, <<>>)

\* the divisors of the long division have at most this many bits
SmallBits == 17

SmallOf(a) == DigitAt(a, 1) + DigitAt(a, 2) * Base

Zero64 == [s |-> 0, m |-> <<>>, e |-> 0]

\* bits * 2^e, with something below the last bit when sticky, rounded to a
\* significand: to nearest, ties to even
RoundBits(bits, e, sticky) ==
  LET k == BigBitLen(bits) - SignificandBits
  IN IF k <= 0 THEN [m |-> BigShiftLeft(bits, 0 - k), e |-> e + k]
     ELSE LET kept == BigShiftRight(bits, k)
              below == sticky \/ \E i \in 1..(k - 1) : BigBit(bits, i) = 1
              up == BigBit(bits, k) = 1 /\ (below \/ BigBit(kept, 1) = 1)
              next == BigAdd(kept, <<1>>)
          IN IF ~up THEN [m |-> kept, e |-> e + k]
             ELSE IF BigBitLen(next) > SignificandBits
                  THEN [m |-> BigShiftRight(next, 1), e |-> e + k + 1]
             ELSE [m |-> next, e |-> e + k]

\* a * b
DoubleMul(a, b) ==
  IF a.s = 0 \/ b.s = 0 THEN Zero64
  ELSE LET r == RoundBits(BigMul(a.m, b.m), a.e + b.e, FALSE)
       IN [s |-> a.s * b.s, m |-> r.m, e |-> r.e]

\* a / b for b # 0 whose significand, without the zeros it ends with, has
\* at most SmallBits bits
DoubleDiv(a, b) ==
  IF a.s = 0 THEN Zero64
  ELSE LET zeros == BigTrailingZeros(b.m)
           d == SmallOf(BigShiftRight(b.m, zeros))
           extra == SmallBits + 2
           qr == BigDivSmall(BigShiftLeft(a.m, extra), d)
           r == RoundBits(qr.q, a.e - extra - (b.e + zeros), qr.r # 0)
       IN [s |-> a.s * b.s, m |-> r.m, e |-> r.e]

\* a + b for a and b of one sign, or zero
DoubleAdd(a, b) ==
  IF a.s = 0 THEN b
  ELSE IF b.s = 0 THEN a
  ELSE LET e == Min(a.e, b.e)
           x == BigShiftLeft(a.m, a.e - e)
           y == BigShiftLeft(b.m, b.e - e)
           r == RoundBits(BigAdd(x, y), e, FALSE)
       IN [s |-> a.s, m |-> r.m, e |-> r.e]

\* the double of a number literal: the double nearest to the number written
ToDouble(a) ==
  IF a.n = 0 THEN Zero64
  ELSE LET top == BigMul(BigOf(Abs(a.n)),
                         BigOf(IntPow(5, IF a.e5 > 0 THEN a.e5 ELSE 0)))
           bottom == a.d * IntPow(5, IF a.e5 < 0 THEN 0 - a.e5 ELSE 0)
           extra == SignificandBits + SmallBits + 2
           qr == BigDivSmall(BigShiftLeft(top, extra), bottom)
           r == RoundBits(qr.q, a.e2 - extra, qr.r # 0)
       IN [s |-> Sgn(a.n), m |-> r.m, e |-> r.e]

\* the distance of two positive doubles is at most count units in the last
\* place of the larger one
WithinUlps(a, b, count) ==
  LET e == Min(a.e, b.e)
      x == BigShiftLeft(a.m, a.e - e)
      y == BigShiftLeft(b.m, b.e - e)
      distance == IF BigCmp(x, y) >= 0 THEN BigSub(x, y) ELSE BigSub(y, x)
      unit == (a.e + b.e - e) - e
  IN BigCmp(distance, BigShiftLeft(BigOf(count), unit)) <= 0

bitsToBytes64(bits) == DoubleDiv(bits, ToDouble(Num(8)))

\* mutant: the bit width is taken for a number of bytes
calculateWeightMemoryGB64_BitsAsBytes(parameterCount, weightPrecisionBits) ==
  IF parameterCount.s <= 0 THEN Zero64
  ELSE LET bytes == DoubleMul(parameterCount, weightPrecisionBits)
       IN DoubleDiv(bytes, ToDouble(BYTES_PER_GB))

calculateWeightMemoryGB64(parameterCount, weightPrecisionBits) ==
  IF parameterCount.s <= 0 THEN Zero64
  ELSE LET bytes == DoubleMul(parameterCount, bitsToBytes64(weightPrecisionBits))
       IN DoubleDiv(bytes, ToDouble(BYTES_PER_GB))

\* mutant: the argument is taken in millions
calculateMemoryFromBillions64_Millions(paramsInBillions, weightPrecisionBits) ==
  IF paramsInBillions.s <= 0 THEN Zero64
  ELSE calculateWeightMemoryGB64(
         DoubleMul(paramsInBillions, ToDouble(Pow(Num(10), 6))),
         weightPrecisionBits)

calculateMemoryFromBillions64(paramsInBillions, weightPrecisionBits) ==
  IF paramsInBillions.s <= 0 THEN Zero64
  ELSE calculateWeightMemoryGB64(
         DoubleMul(paramsInBillions, ToDouble(Pow(Num(10), 9))),
         weightPrecisionBits)

\* mutant: the override is taken with || and not with ??, so that an
\* override of 0 falls back to the default
calculateActivationMemoryGB64_OrDefault(parameterCount, weightPrecisionBits, mode, activationMultiplierOverride) ==
  IF parameterCount.s <= 0 THEN Zero64
  ELSE LET multiplier ==
             IF activationMultiplierOverride \in {Undefined, Zero64}
             THEN ToDouble(DEFAULT_ACTIVATION_MULTIPLIER[mode])
             ELSE activationMultiplierOverride
           weightMemoryGB ==
             calculateWeightMemoryGB64(parameterCount, weightPrecisionBits)
       IN DoubleMul(weightMemoryGB, multiplier)

calculateActivationMemoryGB64(parameterCount, weightPrecisionBits, mode, activationMultiplierOverride) ==
  IF parameterCount.s <= 0 THEN Zero64
  ELSE LET multiplier == Coalesce(activationMultiplierOverride,
                                  ToDouble(DEFAULT_ACTIVATION_MULTIPLIER[mode]))
           weightMemoryGB ==
             calculateWeightMemoryGB64(parameterCount, weightPrecisionBits)
       IN DoubleMul(weightMemoryGB, multiplier)

\* mutant: the guard parameterCount <= 0 is missing
calculateOptimizerMemoryGB64_NoGuard(parameterCount, weightPrecisionBits, optimizer) ==
  LET multiplier ==
        IF optimizer \in DOMAIN OPTIMIZER_MULTIPLIER
        THEN ToDouble(OPTIMIZER_MULTIPLIER[optimizer]) ELSE Zero64
      weightBytes == DoubleMul(parameterCount, bitsToBytes64(weightPrecisionBits))
      optimizerBytes == DoubleMul(weightBytes, multiplier)
  IN DoubleDiv(optimizerBytes, ToDouble(BYTES_PER_GB))

calculateOptimizerMemoryGB64(parameterCount, weightPrecisionBits, optimizer) ==
  IF parameterCount.s <= 0 THEN Zero64
  ELSE LET multiplier ==
             IF optimizer \in DOMAIN OPTIMIZER_MULTIPLIER
             THEN ToDouble(OPTIMIZER_MULTIPLIER[optimizer]) ELSE Zero64
           weightBytes == DoubleMul(parameterCount, bitsToBytes64(weightPrecisionBits))
           optimizerBytes == DoubleMul(weightBytes, multiplier)
       IN DoubleDiv(optimizerBytes, ToDouble(BYTES_PER_GB))

\* mutant: the key/value width is that of an attention head, so that the
\* number of key/value heads counts
estimateTransformerParameters64_HeadWidth(config) ==
  IF \/ config.vocabSize.s <= 0 \/ config.hiddenSize.s <= 0
     \/ config.numLayers.s <= 0 \/ config.numAttentionHeads.s <= 0
  THEN Zero64
  ELSE LET hiddenSize == config.hiddenSize
           kvHeads == Coalesce(config.numKeyValueHeads, config.numAttentionHeads)
           kvHeadDim == DoubleDiv(hiddenSize, config.numAttentionHeads)
           embeddingParams == DoubleMul(config.vocabSize, hiddenSize)
           qkvParams ==
             DoubleAdd(DoubleMul(hiddenSize, hiddenSize),
                       DoubleMul(DoubleMul(DoubleMul(hiddenSize, kvHeadDim), kvHeads),
                                 ToDouble(Num(2))))
           attentionOutputParams == DoubleMul(hiddenSize, hiddenSize)
           attnParamsPerLayer == DoubleAdd(qkvParams, attentionOutputParams)
           effectiveIntermediate ==
             IF config.intermediateSize # Undefined /\ config.intermediateSize.s > 0
             THEN config.intermediateSize
             ELSE DoubleMul(hiddenSize, ToDouble(Num(4)))
           mlpHidden == effectiveIntermediate
           mlpParamsPerLayer ==
             DoubleMul(DoubleMul(hiddenSize, mlpHidden), ToDouble(Num(2)))
           normParamsPerLayer == DoubleMul(hiddenSize, ToDouble(Num(2)))
           layerParams ==
             DoubleAdd(DoubleAdd(DoubleMul(attnParamsPerLayer, ToDouble(Num(2))),
                                 mlpParamsPerLayer),
                       DoubleMul(normParamsPerLayer, ToDouble(Num(2))))
       IN DoubleAdd(embeddingParams, DoubleMul(config.numLayers, layerParams))

\* estimateTransformerParameters in binary64, for a numKeyValueHeads that is
\* absent or positive
estimateTransformerParameters64(config) ==
  IF \/ config.vocabSize.s <= 0 \/ config.hiddenSize.s <= 0
     \/ config.numLayers.s <= 0 \/ config.numAttentionHeads.s <= 0
  THEN Zero64
  ELSE LET hiddenSize == config.hiddenSize
           kvHeads == Coalesce(config.numKeyValueHeads, config.numAttentionHeads)
           kvHeadDim == DoubleDiv(hiddenSize, kvHeads)
           embeddingParams == DoubleMul(config.vocabSize, hiddenSize)
           qkvParams ==
             DoubleAdd(DoubleMul(hiddenSize, hiddenSize),
                       DoubleMul(DoubleMul(DoubleMul(hiddenSize, kvHeadDim), kvHeads),
                                 ToDouble(Num(2))))
           attentionOutputParams == DoubleMul(hiddenSize, hiddenSize)
           attnParamsPerLayer == DoubleAdd(qkvParams, attentionOutputParams)
           effectiveIntermediate ==
             IF config.intermediateSize # Undefined /\ config.intermediateSize.s > 0
             THEN config.intermediateSize
             ELSE DoubleMul(hiddenSize, ToDouble(Num(4)))
           mlpHidden == effectiveIntermediate
           mlpParamsPerLayer ==
             DoubleMul(DoubleMul(hiddenSize, mlpHidden), ToDouble(Num(2)))
           normParamsPerLayer == DoubleMul(hiddenSize, ToDouble(Num(2)))
           layerParams ==
             DoubleAdd(DoubleAdd(DoubleMul(attnParamsPerLayer, ToDouble(Num(2))),
                                 mlpParamsPerLayer),
                       DoubleMul(normParamsPerLayer, ToDouble(Num(2))))
       IN DoubleAdd(embeddingParams, DoubleMul(config.numLayers, layerParams))

(***************************************************************************)
(* Arguments the calls are made with                                       *)
(***************************************************************************)
ParameterCounts == {Num(0 - 1), Num(0), Mul(Num(1), Pow(Num(10), 9))}

PrecisionBits == {Num(4), Num(16)}

ExecutionModes == {"inference", "training"}

HiddenSizes == {Num(0 - 1), Num(0), Num(4096)}

LayerCounts == {Num(0), Num(32)}

SequenceLengths == {Num(0), Num(4096)}

BatchSizes == {Num(0), Num(1)}

KvCachePrecisions == {Undefined, Num(8)}

ActivationOverrides == {Undefined, Num(0), Dec(0 - 1, 2)}

Optimizers == {"undefined", "none", "adamw", "adafactor"}

OverheadFactors == {Undefined, Dec(1, 2), Dec(3, 2)}

MemoryEstimationInputs ==
  [parameterCount               : ParameterCounts,
   weightPrecisionBits          : PrecisionBits,
   mode                         : ExecutionModes,
   hiddenSize                   : HiddenSizes,
   numLayers                    : LayerCounts,
   sequenceLength               : SequenceLengths,
   batchSize                    : BatchSizes,
   kvCachePrecisionBits         : KvCachePrecisions,
   activationMultiplierOverride : ActivationOverrides,
   optimizer                    : Optimizers,
   overheadFactor               : OverheadFactors]

\* 10 ** 9
Billion == Pow(Num(10), 9)

InferenceTimeInputs ==
  [flops            : {Num(0), Num(100), Num(2000)},
   gpu_tflops       : {Num(0), Num(30), Num(100)},
   num_params       : {Num(0), Mul(Num(3), Billion)},
   memory_bandwidth : {Num(0), Num(60), Num(500)},
   overhead_factor  : {Num(1), Dec(3, 2)},
   bytes_per_param  : {Num(2), Num(12)}]

TrainingCostInputs ==
  [inference_gflops_per_sequence : {Num(0), Num(1000), Num(10000)},
   gpu_tflops                    : {Num(0), Num(80)},
   num_params                    : {Mul(Num(6), Billion)},
   memory_bandwidth              : {Num(0), Num(700)},
   overhead_factor               : {Dec(12, 10)},
   gpu_hourly_cost               : {Num(0), Dec(5, 2)},
   num_epochs                    : {Num(3)},
   dataset_size                  : {Num(0), Num(100000)},
   model_precision_bits          : {Num(16), Num(32)}]

CloudInstanceCostInputs ==
  [hourlyRate    : {Num(0 - 1), Num(0), Dec(306, 100), Dec(5, 2)},
   durationHours : {Num(0 - 2), Num(0), Num(2), Dec(1, 2)}]

\* the entries a GPU table is made of, and the tables of up to MaxGpus entries
GpuEntries ==
  { [name |-> "T4", memory_gb |-> Num(16), fp32_tflops |-> Num(8)],
    [name |-> "RTX 3090", memory_gb |-> Num(24), fp32_tflops |-> Num(35)],
    [name |-> "L4", memory_gb |-> Num(24), fp32_tflops |-> Num(30)],
    [name |-> "A100", memory_gb |-> Num(80), fp32_tflops |-> Num(19)] }

MaxGpus == 4

GpuTables == UNION {[1..len -> GpuEntries] : len \in 0..MaxGpus}

RequiredMemories == {Num(0 - 4), Num(0), Num(10), Num(24), Dec(49, 2), Num(100)}

MaxResultsArgs == {Undefined, Num(0 - 1), Num(0), Num(1), Num(2), Num(5)}

\* a stand-in for the entries of gpus.json
SampleGpus ==
  << [name |-> "A", memory_gb |-> Num(24), fp32_tflops |-> Num(35)],
     [name |-> "B", memory_gb |-> Num(80), fp32_tflops |-> Num(19)] >>

NoArgs == <<>>

(***************************************************************************)
(* The engine as a state machine.  The engine is synchronous and           *)
(* single-threaded: a caller that holds no outcome makes one call, which   *)
(* runs to completion and leaves its arguments and its outcome behind,     *)
(* and the caller then drops the outcome before the next call.  There is   *)
(* one action per exported function.                                       *)
(***************************************************************************)
Idle ==
  /\ op = "none"
  /\ args = NoArgs
  /\ result = Return(NoValue)

InitMemory ==
  /\ gpus = SampleGpus
  /\ Idle

\* the caller is done with the outcome of the last call
Discard ==
  /\ op # "none"
  /\ op' = "none"
  /\ args' = NoArgs
  /\ result' = Return(NoValue)
  /\ UNCHANGED gpus

CallEstimateMemory ==
  /\ op = "none"
  /\ \E input \in MemoryEstimationInputs :
       /\ op' = "estimateMemory"
       /\ args' = input
       /\ result' = estimateMemory(input)
  /\ UNCHANGED gpus

NextMemory == CallEstimateMemory \/ Discard

SpecMemory == InitMemory /\ [][NextMemory]_vars

CallEstimateInferenceTime ==
  /\ op = "none"
  /\ \E a \in InferenceTimeInputs :
       /\ op' = "estimateInferenceTime"
       /\ args' = a
       /\ result' = Return(estimateInferenceTime(
                       a.flops, a.gpu_tflops, a.num_params, a.memory_bandwidth,
                       a.overhead_factor, a.bytes_per_param))
  /\ UNCHANGED gpus

CallEstimateTrainingCost ==
  /\ op = "none"
  /\ \E a \in TrainingCostInputs :
       /\ op' = "estimateTrainingCost"
       /\ args' = a
       /\ result' = Return(estimateTrainingCost(
                       a.inference_gflops_per_sequence, a.gpu_tflops,
                       a.num_params, a.memory_bandwidth, a.overhead_factor,
                       a.gpu_hourly_cost, a.num_epochs, a.dataset_size,
                       a.model_precision_bits))
  /\ UNCHANGED gpus

CallEstimateCloudCost ==
  /\ op = "none"
  /\ \E input \in CloudInstanceCostInputs :
       /\ op' = "estimateCloudCost"
       /\ args' = input
       /\ result' = estimateCloudCost(input)
  /\ UNCHANGED gpus

NextCost ==
  \/ CallEstimateInferenceTime
  \/ CallEstimateTrainingCost
  \/ CallEstimateCloudCost
  \/ Discard

SpecCost == InitMemory /\ [][NextCost]_vars

InitGpus ==
  /\ gpus \in GpuTables
  /\ Idle

CallRecommendGpus ==
  /\ op = "none"
  /\ \E requiredMemoryGB \in RequiredMemories, maxResults \in MaxResultsArgs :
       /\ op' = "recommendGpus"
       /\ args' = [requiredMemoryGB |-> requiredMemoryGB,
                   maxResults       |-> maxResults]
       /\ result' = Return(recommendGpus(gpus, requiredMemoryGB, maxResults))
       /\ gpus' = TableAfterRecommendGpus(gpus, requiredMemoryGB)

NextGpus == CallRecommendGpus \/ Discard

SpecGpus == InitGpus /\ [][NextGpus]_vars

(***************************************************************************)
(* Several callers.  The functions are synchronous, so the calls of        *)
(* several callers run one after the other in any order; a caller need not *)
(* wait for the others, and holds the outcome of its own latest call.      *)
(* Here op, args and result map each caller to its latest call; the GPU    *)
(* table is the one array all callers share.                               *)
(***************************************************************************)
Callers == {"page", "test"}

CallerMemoryInputs ==
  [parameterCount               : {Num(0 - 1), Billion},
   weightPrecisionBits          : {Num(16)},
   mode                         : ExecutionModes,
   hiddenSize                   : {Num(4096)},
   numLayers                    : {Num(32)},
   sequenceLength               : {Num(4096)},
   batchSize                    : {Num(1)},
   kvCachePrecisionBits         : {Undefined},
   activationMultiplierOverride : {Undefined},
   optimizer                    : {"undefined", "adamw"},
   overheadFactor               : {Undefined}]

\* the outcome of one call on a given GPU table
Outcome(name, a, table) ==
  CASE name = "estimateMemory"    -> estimateMemory(a)
    [] name = "estimateCloudCost" -> estimateCloudCost(a)
    [] name = "recommendGpus"     ->
         Return(recommendGpus(table, a.requiredMemoryGB, a.maxResults))
    [] OTHER                      -> Return(NoValue)

\* one caller makes one call, which runs to completion on the shared table
Serve(caller, name, a) ==
  /\ op' = [op EXCEPT ![caller] = name]
  /\ args' = [args EXCEPT ![caller] = a]
  /\ result' = [result EXCEPT ![caller] = Outcome(name, a, gpus)]
  /\ gpus' = IF name = "recommendGpus"
             THEN TableAfterRecommendGpus(gpus, a.requiredMemoryGB)
             ELSE gpus

InitCallers ==
  /\ gpus = SampleGpus
  /\ op = [caller \in Callers |-> "none"]
  /\ args = [caller \in Callers |-> NoArgs]
  /\ result = [caller \in Callers |-> Return(NoValue)]

CallerEstimateMemory ==
  \E caller \in Callers, input \in CallerMemoryInputs :
    Serve(caller, "estimateMemory", input)

CallerEstimateCloudCost ==
  \E caller \in Callers, input \in CloudInstanceCostInputs :
    Serve(caller, "estimateCloudCost", input)

CallerRecommendGpus ==
  \E caller \in Callers :
    \E requiredMemoryGB \in RequiredMemories, maxResults \in MaxResultsArgs :
      Serve(caller, "recommendGpus",
            [requiredMemoryGB |-> requiredMemoryGB, maxResults |-> maxResults])

NextCallers ==
  CallerEstimateMemory \/ CallerEstimateCloudCost \/ CallerRecommendGpus

SpecCallers == InitCallers /\ [][NextCallers]_vars

(***************************************************************************)
(* The architecture estimates, called one at a time                        *)
(***************************************************************************)
\* parameter counts in tenths of a billion: inside, on and just past the
\* boundary of each bucket
ParameterTenths ==
  {5, 15, 16, 35, 36, 70, 80, 81, 130, 160, 161, 300, 400, 401, 700, 800, 801, 10000}

ArchitectureParameterCounts ==
  {NaN, Infinity(1), Infinity(0 - 1), Undefined, Mul(Num(0 - 7), Billion), Zero,
   Num(70000)}
    \cup {Mul(Dec(tenths, 10), Billion) : tenths \in ParameterTenths}

TransformerConfigs ==
  [vocabSize         : {Num(0), Num(32000)},
   hiddenSize        : {Num(0 - 1), Num(0), Num(64), Num(4096)},
   numLayers         : {Num(0), Num(32)},
   numAttentionHeads : {Num(0), Num(32)},
   intermediateSize  : {Undefined, Num(0), Num(0 - 1), Num(11008)},
   numKeyValueHeads  : {Undefined, Num(0), Num(8)}]

CallEstimateLlamaStyleArchitecture ==
  /\ op = "none"
  /\ \E parameterCount \in ArchitectureParameterCounts :
       /\ op' = "estimateLlamaStyleArchitecture"
       /\ args' = [parameterCount |-> parameterCount]
       /\ result' = Return(estimateLlamaStyleArchitecture(parameterCount))
  /\ UNCHANGED gpus

CallEstimateTransformerParameters ==
  /\ op = "none"
  /\ \E config \in TransformerConfigs :
       /\ op' = "estimateTransformerParameters"
       /\ args' = config
       /\ result' = Return(estimateTransformerParameters(config))
  /\ UNCHANGED gpus

NextArchitecture ==
  \/ CallEstimateLlamaStyleArchitecture
  \/ CallEstimateTransformerParameters
  \/ Discard

SpecArchitecture == InitMemory /\ [][NextArchitecture]_vars

(***************************************************************************)
(* The helper functions, called one at a time.  The arguments are written  *)
(* as number literals and the results are the doubles the functions        *)
(* compute.                                                                *)
(***************************************************************************)
\* 3 * 2^29 parameters are 3 GB of 16-bit weights
HelperParameterCounts ==
  {Mul(Num(0 - 1), Billion), Zero, Billion, Mul(Num(3), Billion),
   Mul(Num(7), Billion), Mul(Num(3), Pow(Num(2), 29))}

HelperPrecisionBits == {Num(4), Num(8), Num(16), Num(32)}

HelperActivationOverrides == {Undefined, Num(0), Dec(1, 2), Num(3), Dec(0 - 1, 2)}

OptimizerTypes == {"none", "adam", "adamw", "adafactor", "lamb"}

\* an optional number argument as the double passed
Argument64(a) == IF a = Undefined THEN Undefined ELSE ToDouble(a)

CallCalculateActivationMemoryGB ==
  /\ op = "none"
  /\ \E parameterCount \in HelperParameterCounts, weightPrecisionBits \in HelperPrecisionBits, mode \in ExecutionModes, activationMultiplierOverride \in HelperActivationOverrides :
       /\ op' = "calculateActivationMemoryGB"
       /\ args' = [parameterCount               |-> parameterCount,
                   weightPrecisionBits          |-> weightPrecisionBits,
                   mode                         |-> mode,
                   activationMultiplierOverride |-> activationMultiplierOverride]
       /\ result' = Return(calculateActivationMemoryGB64(
                      ToDouble(parameterCount), ToDouble(weightPrecisionBits),
                      mode, Argument64(activationMultiplierOverride)))
  /\ UNCHANGED gpus

CallCalculateOptimizerMemoryGB ==
  /\ op = "none"
  /\ \E parameterCount \in HelperParameterCounts, weightPrecisionBits \in HelperPrecisionBits, optimizer \in OptimizerTypes :
       /\ op' = "calculateOptimizerMemoryGB"
       /\ args' = [parameterCount      |-> parameterCount,
                   weightPrecisionBits |-> weightPrecisionBits,
                   optimizer           |-> optimizer]
       /\ result' = Return(calculateOptimizerMemoryGB64(
                      ToDouble(parameterCount), ToDouble(weightPrecisionBits),
                      optimizer))
  /\ UNCHANGED gpus

\* 1.3 is not a double: 1.3 * 10 ** 9 is rounded
BillionsArgs == {Num(0 - 1), Zero, Dec(1, 2), Dec(13, 10), Num(7), Num(70)}

CallCalculateWeightMemoryGB ==
  /\ op = "none"
  /\ \E parameterCount \in HelperParameterCounts, weightPrecisionBits \in HelperPrecisionBits :
       /\ op' = "calculateWeightMemoryGB"
       /\ args' = [parameterCount      |-> parameterCount,
                   weightPrecisionBits |-> weightPrecisionBits]
       /\ result' = Return(calculateWeightMemoryGB64(
                      ToDouble(parameterCount), ToDouble(weightPrecisionBits)))
  /\ UNCHANGED gpus

CallCalculateMemoryFromBillions ==
  /\ op = "none"
  /\ \E paramsInBillions \in BillionsArgs, weightPrecisionBits \in HelperPrecisionBits :
       /\ op' = "calculateMemoryFromBillions"
       /\ args' = [paramsInBillions    |-> paramsInBillions,
                   weightPrecisionBits |-> weightPrecisionBits]
       /\ result' = Return(calculateMemoryFromBillions64(
                      ToDouble(paramsInBillions), ToDouble(weightPrecisionBits)))
  /\ UNCHANGED gpus

GroupedQueryConfigs ==
  [vocabSize         : {Num(0), Num(1), Num(32000)},
   hiddenSize        : {Num(61), Num(64), Num(4096)},
   numLayers         : {Num(1), Num(32)},
   numAttentionHeads : {Num(1), Num(32)},
   intermediateSize  : {Undefined, Num(1), Num(11008)},
   numKeyValueHeads  : {Undefined, Num(1), Num(3), Num(8), Num(111)}]

Config64(config) ==
  [vocabSize         |-> ToDouble(config.vocabSize),
   hiddenSize        |-> ToDouble(config.hiddenSize),
   numLayers         |-> ToDouble(config.numLayers),
   numAttentionHeads |-> ToDouble(config.numAttentionHeads),
   intermediateSize  |-> Argument64(config.intermediateSize),
   numKeyValueHeads  |-> Argument64(config.numKeyValueHeads)]

CallEstimateTransformerParameters64 ==
  /\ op = "none"
  /\ \E config \in GroupedQueryConfigs :
       /\ op' = "estimateTransformerParameters"
       /\ args' = config
       /\ result' = Return(estimateTransformerParameters64(Config64(config)))
  /\ UNCHANGED gpus

NextHelpers ==
  \/ CallCalculateActivationMemoryGB
  \/ CallCalculateOptimizerMemoryGB
  \/ CallCalculateWeightMemoryGB
  \/ CallCalculateMemoryFromBillions
  \/ CallEstimateTransformerParameters64
  \/ Discard

SpecHelpers == InitMemory /\ [][NextHelpers]_vars

(***************************************************************************)
(* The sizing functions, called one at a time                              *)
(***************************************************************************)
KvCacheInputs ==
  [sequenceLength : {Num(0 - 1), Num(0), Num(2048), Num(4096)},
   batchSize      : {Num(0), Num(1), Num(3)},
   numLayers      : {Num(0), Num(32), Num(80)},
   hiddenSize     : {Num(0), Num(4096), Num(8192)},
   precisionBits  : {Num(8), Num(16)}]

ThroughputInputs ==
  [parameterCount : {Mul(Num(0 - 7), Billion), Zero, Mul(Num(7), Billion)},
   gpuTFlops      : {Num(0 - 1), Zero, Num(40), Dec(195, 10)},
   efficiency     : {Undefined, Dec(0 - 1, 10), Zero, Dec(3, 10), Dec(1, 2), Num(1)}]

ModelFlopInputs ==
  [numLayers      : {Num(0), Num(1), Num(32)},
   hiddenSize     : {Num(0 - 1), Num(0), Num(64), Num(4096)},
   sequenceLength : {Num(0), Num(1), Num(2048)},
   vocabSize      : {Num(0), Num(32000), Num(50257)}]

LegacyMemories ==
  {Num(0), Num(7), Num(8), Dec(81, 10), Num(9), Num(11), Num(12), Num(24), Num(25)}

LegacyFlops ==
  {Num(0), Mul(Dec(1, 2), Billion), Billion, Mul(Dec(15, 10), Billion),
   Mul(Num(2), Billion), Mul(Dec(21, 10), Billion), Mul(Num(5), Billion),
   Mul(Dec(51, 10), Billion)}

CallCalculateKvCacheMemoryGB ==
  /\ op = "none"
  /\ \E input \in KvCacheInputs :
       /\ op' = "calculateKvCacheMemoryGB"
       /\ args' = input
       /\ result' = Return(calculateKvCacheMemoryGB(input))
  /\ UNCHANGED gpus

CallEstimateThroughput ==
  /\ op = "none"
  /\ \E input \in ThroughputInputs :
       /\ op' = "estimateThroughput"
       /\ args' = input
       /\ result' = Return(estimateThroughput(input))
  /\ UNCHANGED gpus

CallEstimateDecoderFlops ==
  /\ op = "none"
  /\ \E input \in ModelFlopInputs :
       /\ op' = "estimateDecoderFlops"
       /\ args' = input
       /\ result' = Return(estimateDecoderFlops(input))
  /\ UNCHANGED gpus

CallRecommendGPU ==
  /\ op = "none"
  /\ \E memoryInGB \in LegacyMemories, flops \in LegacyFlops :
       /\ op' = "recommendGPU"
       /\ args' = [memoryInGB |-> memoryInGB, flops |-> flops]
       /\ result' = Return(recommendGPU(memoryInGB, flops))
  /\ UNCHANGED gpus

NextSizing ==
  \/ CallCalculateKvCacheMemoryGB
  \/ CallEstimateThroughput
  \/ CallEstimateDecoderFlops
  \/ CallRecommendGPU
  \/ Discard

SpecSizing == InitMemory /\ [][NextSizing]_vars

(***************************************************************************)
(* Properties of estimateMemory, checked under SpecMemory                  *)
(***************************************************************************)
MemoryReturned == op = "estimateMemory" /\ ~result.threw

MemoryFields ==
  {"weightsGB", "activationsGB", "kvCacheGB", "optimizerGB", "baseTotalGB",
   "overheadGB", "totalGB"}

ShapeIsPositive ==
  /\ Sign(args.hiddenSize) > 0
  /\ Sign(args.numLayers) > 0
  /\ Sign(args.sequenceLength) > 0
  /\ Sign(args.batchSize) > 0

ShapeIsZero ==
  /\ args.hiddenSize = Zero
  /\ args.numLayers = Zero
  /\ args.sequenceLength = Zero
  /\ args.batchSize = Zero

C2_AllFieldsNonNegative ==
  MemoryReturned =>
    \A f \in MemoryFields : Ge(result.value[f], Zero)

\* C3: estimateMemory throws exactly when parameterCount < 0, and then no
\* breakdown is produced; otherwise it returns a complete breakdown, in which
\* kvCacheGB is 0 as soon as hiddenSize, numLayers, sequenceLength or
\* batchSize is zero or negative.
C3_ThrowsOnlyOnNegativeParameterCount ==
  op = "estimateMemory" =>
    /\ result.threw <=> Sign(args.parameterCount) < 0
    /\ result.threw => DOMAIN result.value = {}
    /\ ~result.threw =>
         /\ DOMAIN result.value = MemoryFields
         /\ ~ShapeIsPositive => result.value.kvCacheGB = Zero

\* C3 witness: parameterCount = 0 with a negative hiddenSize in inference
\* mode is accepted and yields a complete breakdown.
C3_Witness ==
  /\ MemoryReturned
  /\ args.parameterCount = Zero
  /\ Sign(args.hiddenSize) < 0
  /\ args.mode = "inference"
  /\ DOMAIN result.value = MemoryFields

\* C4 as stated: with parameterCount >= 0 and hiddenSize, numLayers,
\* sequenceLength and batchSize all zero, all seven fields are 0.
C4_ZeroShapeGivesAllZero ==
  (MemoryReturned /\ ShapeIsZero) =>
    \A f \in MemoryFields : result.value[f] = Zero

\* C4 amended: with the shape parameters all zero, the breakdown is all-zero
\* when parameterCount = 0; when parameterCount > 0 only kvCacheGB is 0 and
\* weightsGB is positive.
C4_ZeroShapeAndZeroParametersGiveAllZero ==
  (MemoryReturned /\ ShapeIsZero) =>
    /\ result.value.kvCacheGB = Zero
    /\ args.parameterCount = Zero =>
         \A f \in MemoryFields : result.value[f] = Zero
    /\ Sign(args.parameterCount) > 0 => Sign(result.value.weightsGB) > 0

\* C4 witness: a call with zero parameters and a zero shape, with an
\* overheadFactor supplied.
C4_Witness ==
  /\ MemoryReturned
  /\ ShapeIsZero
  /\ args.parameterCount = Zero
  /\ args.overheadFactor = Dec(3, 2)
  /\ result.value.totalGB = Zero

\* C5: in training mode kvCacheGB = 0 whatever the shape; in inference mode
\* optimizerGB = 0 whatever optimizer is passed, and kvCacheGB is
\* calculateKvCacheMemoryGB at kvCachePrecisionBits, or at weightPrecisionBits
\* when kvCachePrecisionBits is absent.
C5_KvCacheOnlyInInferenceOptimizerOnlyInTraining ==
  MemoryReturned =>
    /\ args.mode = "training" => result.value.kvCacheGB = Zero
    /\ args.mode = "inference" =>
         /\ result.value.optimizerGB = Zero
         /\ result.value.kvCacheGB =
              calculateKvCacheMemoryGB(
                [sequenceLength |-> args.sequenceLength,
                 batchSize      |-> args.batchSize,
                 numLayers      |-> args.numLayers,
                 hiddenSize     |-> args.hiddenSize,
                 precisionBits  |->
                   IF args.kvCachePrecisionBits = Undefined
                   THEN args.weightPrecisionBits
                   ELSE args.kvCachePrecisionBits])

\* C5 witness: a training call with a positive shape and positive parameter
\* count: the optimizer state is counted and the KV cache is not.
C5_Witness ==
  /\ MemoryReturned
  /\ args.mode = "training"
  /\ ShapeIsPositive
  /\ Sign(args.parameterCount) > 0
  /\ Sign(result.value.optimizerGB) > 0
  /\ result.value.kvCacheGB = Zero

\* C6: without an optimizer, training uses adamw (optimizerGB = 4 * weightsGB)
\* and inference uses none (optimizerGB = 0); an optimizer supplied in
\* training mode decides optimizerGB: 0 for none, 4 * weightsGB for adamw,
\* 1.5 * weightsGB for adafactor.
C6_DefaultOptimizerByMode ==
  MemoryReturned =>
    LET b == result.value
        supplied ==
          CASE args.optimizer = "none" -> Num(0)
            [] args.optimizer = "adamw" -> Num(4)
            [] args.optimizer = "adafactor" -> Dec(3, 2)
            [] OTHER -> NaN
    IN /\ (args.optimizer = "undefined" /\ args.mode = "training") =>
            b.optimizerGB = Mul(Num(4), b.weightsGB)
       /\ (args.optimizer = "undefined" /\ args.mode = "inference") =>
            b.optimizerGB = Zero
       /\ (args.optimizer # "undefined" /\ args.mode = "training") =>
            b.optimizerGB = Mul(supplied, b.weightsGB)

\* C6 witness: a training call without an optimizer, with a positive
\* parameter count, so that optimizerGB = 4 * weightsGB > 0.
C6_Witness ==
  /\ MemoryReturned
  /\ args.mode = "training"
  /\ args.optimizer = "undefined"
  /\ Sign(result.value.weightsGB) > 0
  /\ result.value.optimizerGB = Mul(Num(4), result.value.weightsGB)

(***************************************************************************)
(* Properties of the time and cost functions, checked under SpecCost       *)
(***************************************************************************)
\* C7: for positive inputs estimateInferenceTime returns
\* max(computeTime, memoryTime) * overhead_factor, with
\* computeTime = flops*1e9 / (gpu_tflops*1e12) and
\* memoryTime = num_params*bytes_per_param / (memory_bandwidth*1024^3):
\* computeTime*overhead_factor when computeTime >= memoryTime,
\* memoryTime*overhead_factor otherwise, and never their sum.
C7_InferenceTimeIsTheLargerBound ==
  (/\ op = "estimateInferenceTime"
   /\ \A a \in DOMAIN args : Sign(args[a]) > 0) =>
    LET computeTime == Div(Mul(args.flops, Num(1000000000)),
                           Mul(args.gpu_tflops, Mul(Num(1000000), Num(1000000))))
        memoryTime == Div(Mul(args.num_params, args.bytes_per_param),
                          Mul(args.memory_bandwidth, Num(1073741824)))
    IN /\ result.value =
            IF Ge(computeTime, memoryTime)
            THEN Mul(computeTime, args.overhead_factor)
            ELSE Mul(memoryTime, args.overhead_factor)
       /\ result.value #
            Mul(Add(computeTime, memoryTime), args.overhead_factor)

\* C7 witness: the memory-bound call of the tests (100 GFLOPs on 100 TFLOPs,
\* 3e9 parameters of 2 bytes over 60 GB/s), which takes 6e9 / (60 * 1024^3) s.
C7_Witness ==
  /\ op = "estimateInferenceTime"
  /\ args.flops = Num(100)
  /\ args.gpu_tflops = Num(100)
  /\ args.num_params = Mul(Num(3), Billion)
  /\ args.memory_bandwidth = Num(60)
  /\ args.overhead_factor = Num(1)
  /\ args.bytes_per_param = Num(2)
  /\ result.value = Div(Num(100000000), Num(1073741824))

\* C8: estimateTrainingCost equals
\* estimateInferenceTime(3 * inference_gflops_per_sequence, gpu_tflops,
\* num_params, memory_bandwidth, overhead_factor,
\* 2 * (model_precision_bits / 8) + 8) * dataset_size * num_epochs / 3600
\* * gpu_hourly_cost.
C8_TrainingCostFromInferenceTime ==
  op = "estimateTrainingCost" =>
    LET bytesPerParam ==
          Add(Mul(Num(2), Div(args.model_precision_bits, Num(8))), Num(8))
        timePerItem ==
          estimateInferenceTime(
            Mul(Num(3), args.inference_gflops_per_sequence), args.gpu_tflops,
            args.num_params, args.memory_bandwidth, args.overhead_factor,
            bytesPerParam)
    IN result.value =
         Mul(Div(Mul(Mul(timePerItem, args.dataset_size), args.num_epochs),
                 Num(3600)),
             args.gpu_hourly_cost)

\* C8 witness: the memory-bound call of the tests (1000 GFLOPs on 80 TFLOPs,
\* 6e9 parameters of 16 bits over 700 GB/s, 3 epochs of 100000 items at
\* 2.5 per hour) with a finite positive cost.
C8_Witness ==
  /\ op = "estimateTrainingCost"
  /\ args.inference_gflops_per_sequence = Num(1000)
  /\ args.gpu_tflops = Num(80)
  /\ args.memory_bandwidth = Num(700)
  /\ args.gpu_hourly_cost = Dec(5, 2)
  /\ args.dataset_size = Num(100000)
  /\ args.model_precision_bits = Num(16)
  /\ IsFinite(result.value)
  /\ Sign(result.value) > 0

\* C9: estimateCloudCost throws exactly when hourlyRate < 0 or
\* durationHours < 0; otherwise it returns hourlyRate and durationHours
\* unchanged and totalCost = hourlyRate * durationHours.
C9_CloudCostRejectsOnlyNegatives ==
  op = "estimateCloudCost" =>
    /\ result.threw <=>
         (Sign(args.hourlyRate) < 0 \/ Sign(args.durationHours) < 0)
    /\ ~result.threw =>
         /\ result.value.hourlyRate = args.hourlyRate
         /\ result.value.durationHours = args.durationHours
         /\ result.value.totalCost = Mul(args.hourlyRate, args.durationHours)

\* C9 witness: a zero hourlyRate with a positive duration is accepted and
\* costs 0.
C9_Witness ==
  /\ op = "estimateCloudCost"
  /\ args.hourlyRate = Zero
  /\ args.durationHours = Num(2)
  /\ ~result.threw
  /\ result.value.totalCost = Zero

(***************************************************************************)
(* Properties of recommendGpus, checked under SpecGpus                     *)
(***************************************************************************)
\* C10: every entry recommendGpus returns is a GPU of the table with
\* memoryGB >= requiredMemoryGB and carries
\* memoryHeadroomGB = memoryGB - requiredMemoryGB >= 0.
C10_RecommendedGpusFit ==
  op = "recommendGpus" =>
    \A i \in DOMAIN result.value :
      LET r == result.value[i]
      IN /\ \E j \in DOMAIN gpus :
              /\ r.name = gpus[j].name
              /\ r.memoryGB = gpus[j].memory_gb
              /\ r.fp32TFlops = gpus[j].fp32_tflops
         /\ Ge(r.memoryGB, args.requiredMemoryGB)
         /\ r.memoryHeadroomGB = Sub(r.memoryGB, args.requiredMemoryGB)
         /\ Ge(r.memoryHeadroomGB, Zero)

\* C10 witness: a call that returns two GPUs from a table that also holds a
\* GPU too small for the required memory.
C10_Witness ==
  /\ op = "recommendGpus"
  /\ Len(result.value) = 2
  /\ \E j \in DOMAIN gpus : Lt(gpus[j].memory_gb, args.requiredMemoryGB)

\* C11: the list recommendGpus returns is sorted ascending by
\* memoryHeadroomGB: each entry's headroom is <= the next entry's, whatever
\* the order of the GPU table.
C11_SortedByHeadroom ==
  op = "recommendGpus" =>
    \A i \in DOMAIN result.value :
      i + 1 \in DOMAIN result.value =>
        Le(result.value[i].memoryHeadroomGB, result.value[i + 1].memoryHeadroomGB)

\* C11 witness: two GPUs are returned in the opposite order of the table:
\* the table holds the larger one first.
C11_Witness ==
  /\ op = "recommendGpus"
  /\ Len(gpus) = 2
  /\ Len(result.value) = 2
  /\ Lt(gpus[2].memory_gb, gpus[1].memory_gb)
  /\ result.value[1].name = gpus[2].name
  /\ Lt(result.value[1].memoryHeadroomGB, result.value[2].memoryHeadroomGB)

\* C12: recommendGpus returns a list of length <= maxResults for every
\* maxResults, and of length <= 3 when maxResults is omitted.
C12_LengthAtMostMaxResults ==
  op = "recommendGpus" =>
    IF args.maxResults = Undefined
    THEN Len(result.value) <= 3
    ELSE Le(Num(Len(result.value)), args.maxResults)

\* C13: recommendGpus returns the empty list whenever requiredMemoryGB <= 0.
C13_EmptyWhenNothingIsRequired ==
  (op = "recommendGpus" /\ Sign(args.requiredMemoryGB) <= 0) =>
    result.value = <<>>

\* C13 witness: requiredMemoryGB = 0 on a table of three GPUs, all of which
\* would have non-negative headroom, with room for five results.
C13_Witness ==
  /\ op = "recommendGpus"
  /\ args.requiredMemoryGB = Zero
  /\ args.maxResults = Num(5)
  /\ Len(gpus) = 3
  /\ \A j \in DOMAIN gpus : Ge(Sub(gpus[j].memory_gb, args.requiredMemoryGB), Zero)
  /\ result.value = <<>>

ArchitectureReturned == op = "estimateLlamaStyleArchitecture"

IsInteger(a) == IsFinite(a) /\ a.d = 1 /\ a.e2 >= 0 /\ a.e5 >= 0

\* C16: estimateLlamaStyleArchitecture(p) is the all-zero estimate when
\* p <= 0 or p is not finite; for a finite p > 0 it is built from the first
\* archetype in table order with p / 1e9 <= maxBillions (inclusive; the last
\* bucket takes every larger p): that archetype's hiddenSize and numLayers,
\* numHeads = max(1, round(hiddenSize / 128)) and
\* intermediateSize = 4 * hiddenSize, all four positive.
C16_FirstArchetypeThatHolds ==
  ArchitectureReturned =>
    LET p == args.parameterCount
        r == result.value
    IN IF ~IsFinite(p) \/ Sign(p) <= 0
       THEN /\ r.hiddenSize = Zero
            /\ r.numLayers = Zero
            /\ r.numHeads = Zero
            /\ r.intermediateSize = Zero
       ELSE \E i \in DOMAIN LLAMA_STYLE_ARCHETYPES :
              LET billions == Div(p, Billion)
                  perHead == Div(r.hiddenSize, Num(128))
              IN /\ Le(billions, LLAMA_STYLE_ARCHETYPES[i].maxBillions)
                 /\ \A j \in 1..(i - 1) :
                      Lt(LLAMA_STYLE_ARCHETYPES[j].maxBillions, billions)
                 /\ r.hiddenSize = LLAMA_STYLE_ARCHETYPES[i].hiddenSize
                 /\ r.numLayers = LLAMA_STYLE_ARCHETYPES[i].numLayers
                 /\ IsInteger(r.numHeads)
                 /\ Le(Num(1), r.numHeads)
                 /\ Le(Sub(perHead, Dec(1, 2)), r.numHeads)
                 /\ Lt(r.numHeads, Add(perHead, Dec(1, 2)))
                 /\ r.intermediateSize = Mul(Num(4), r.hiddenSize)
                 /\ \A field \in DOMAIN r : Sign(r[field]) > 0

\* C16 witness: 8e9 lies on the boundary of the third bucket and gets it.
C16_Witness ==
  /\ ArchitectureReturned
  /\ args.parameterCount = Mul(Num(8), Billion)
  /\ result.value = [hiddenSize |-> Num(4096), numLayers |-> Num(32),
                     numHeads |-> Num(32), intermediateSize |-> Num(16384)]

\* C17: estimateLlamaStyleArchitecture is monotone over parameter counts,
\* which are finite numbers: for p <= q, hiddenSize(p) <= hiddenSize(q) and
\* numLayers(p) <= numLayers(q); and the estimate for 7e9 has a strictly
\* smaller hiddenSize and numLayers than the estimate for 70e9.
C17_MonotoneInParameterCount ==
  (ArchitectureReturned /\ IsFinite(args.parameterCount)) =>
    LET p == args.parameterCount
        r == result.value
    IN /\ \A q \in ArchitectureParameterCounts :
            (IsFinite(q) /\ Le(p, q)) =>
              /\ Le(r.hiddenSize, estimateLlamaStyleArchitecture(q).hiddenSize)
              /\ Le(r.numLayers, estimateLlamaStyleArchitecture(q).numLayers)
       /\ p = Mul(Num(7), Billion) =>
            LET large == estimateLlamaStyleArchitecture(Mul(Num(70), Billion))
            IN /\ Lt(r.hiddenSize, large.hiddenSize)
               /\ Lt(r.numLayers, large.numLayers)

\* C17 witness: the estimate for 7e9, smaller than the one for 70e9.
C17_Witness ==
  /\ ArchitectureReturned
  /\ args.parameterCount = Mul(Num(7), Billion)
  /\ result.value.hiddenSize = Num(4096)
  /\ result.value.numLayers = Num(32)
  /\ estimateLlamaStyleArchitecture(Mul(Num(70), Billion)).hiddenSize = Num(8192)
  /\ estimateLlamaStyleArchitecture(Mul(Num(70), Billion)).numLayers = Num(80)

\* C18: estimateTransformerParameters is 0 when any of vocabSize, hiddenSize,
\* numLayers, numAttentionHeads is <= 0; otherwise it is
\* vocabSize*hiddenSize + numLayers * (2*(hiddenSize^2
\* + 2*hiddenSize*(hiddenSize/kvHeads)*kvHeads + hiddenSize^2)
\* + 2*hiddenSize*I + 4*hiddenSize), with kvHeads = numKeyValueHeads, or
\* numAttentionHeads when that is absent, and I = intermediateSize, or
\* 4*hiddenSize when that is unset or <= 0.
C18_TransformerParameterFormula ==
  op = "estimateTransformerParameters" =>
    LET V == args.vocabSize
        h == args.hiddenSize
        L == args.numLayers
        kvHeads == IF args.numKeyValueHeads = Undefined
                   THEN args.numAttentionHeads
                   ELSE args.numKeyValueHeads
        I == IF args.intermediateSize = Undefined \/ Sign(args.intermediateSize) <= 0
             THEN Mul(Num(4), h)
             ELSE args.intermediateSize
        square == Mul(h, h)
        keyValue == Mul(Mul(Mul(Num(2), h), Div(h, kvHeads)), kvHeads)
        attention == Mul(Num(2), Add(Add(square, keyValue), square))
        layer == Add(Add(attention, Mul(Mul(Num(2), h), I)), Mul(Num(4), h))
    IN IF \E x \in {V, h, L, args.numAttentionHeads} : Sign(x) <= 0
       THEN result.value = Zero
       ELSE result.value = Add(Mul(V, h), Mul(L, layer))

\* C18 witness: a grouped-query configuration whose intermediateSize is 0
\* gets a positive count, computed with 4 * hiddenSize.
C18_Witness ==
  /\ op = "estimateTransformerParameters"
  /\ args.vocabSize = Num(32000)
  /\ args.hiddenSize = Num(4096)
  /\ args.numLayers = Num(32)
  /\ args.numAttentionHeads = Num(32)
  /\ args.numKeyValueHeads = Num(8)
  /\ args.intermediateSize = Zero
  /\ IsFinite(result.value)
  /\ Sign(result.value) > 0

(***************************************************************************)
(* Properties of the helper functions, checked under SpecHelpers           *)
(***************************************************************************)
ActivationCalled == op = "calculateActivationMemoryGB"

\* the weight memory of the call's parameterCount and precision
WeightOfCall ==
  calculateWeightMemoryGB64(ToDouble(args.parameterCount),
                            ToDouble(args.weightPrecisionBits))

\* the result is the weight memory times the multiplier: the override when
\* one is supplied, 0 included, and otherwise 0.2 for inference and 2.0 for
\* training; it is 0 for parameterCount <= 0
ActivationIsWeightTimesMultiplier ==
  ActivationCalled =>
    LET multiplier ==
          IF args.activationMultiplierOverride # Undefined
          THEN ToDouble(args.activationMultiplierOverride)
          ELSE IF args.mode = "inference" THEN ToDouble(Dec(2, 10))
          ELSE ToDouble(Num(2))
    IN IF Sign(args.parameterCount) <= 0
       THEN result.value = Zero64
       ELSE result.value = DoubleMul(WeightOfCall, multiplier)

\* a training call under the defaults with parameterCount > 0
TrainingUnderDefaults ==
  /\ ActivationCalled
  /\ args.mode = "training"
  /\ args.activationMultiplierOverride = Undefined
  /\ Sign(args.parameterCount) > 0

\* 10 times the inference result under the defaults for the same
\* parameterCount and precision
TenTimesInference ==
  DoubleMul(ToDouble(Num(10)),
            calculateActivationMemoryGB64(ToDouble(args.parameterCount),
                                          ToDouble(args.weightPrecisionBits),
                                          "inference", Undefined))

\* C19 as stated: calculateActivationMemoryGB returns weight memory times the
\* multiplier (the override whenever one is supplied, 0 included, otherwise
\* 0.2 for inference and 2.0 for training), 0 for parameterCount <= 0, and
\* for every parameterCount > 0 and precision the training result under the
\* defaults is exactly 10 times the inference result.
C19_TrainingExactlyTenTimesInference ==
  /\ ActivationIsWeightTimesMultiplier
  /\ TrainingUnderDefaults => result.value = TenTimesInference

\* C19: calculateActivationMemoryGB returns weight memory times the
\* multiplier (the override whenever one is supplied, 0 included, otherwise
\* 0.2 for inference and 2.0 for training), 0 for parameterCount <= 0, and
\* for every parameterCount > 0 and precision the training result under the
\* defaults is 10 times the inference result up to rounding: the two are
\* within 4 units in the last place.
C19_TrainingTenTimesInferenceUpToRounding ==
  /\ ActivationIsWeightTimesMultiplier
  /\ TrainingUnderDefaults => WithinUlps(result.value, TenTimesInference, 4)

\* C19 witness: for 3 GB of 16-bit weights the training result is 6 and the
\* inference result times 10 is the next double above 6.
C19_Witness ==
  /\ TrainingUnderDefaults
  /\ args.parameterCount = Mul(Num(3), Pow(Num(2), 29))
  /\ args.weightPrecisionBits = Num(16)
  /\ result.value = ToDouble(Num(6))
  /\ result.value # TenTimesInference
  /\ WithinUlps(result.value, TenTimesInference, 1)

\* C20: calculateOptimizerMemoryGB(p, bits, kind) equals
\* calculateWeightMemoryGB(p, bits) times a fixed multiplier per optimizer
\* kind: 0 for none, 4 for adam, adamw and lamb, 1.5 for adafactor; and it
\* is 0 for p <= 0.
C20_OptimizerIsWeightTimesFixedMultiplier ==
  op = "calculateOptimizerMemoryGB" =>
    LET fixed == CASE args.optimizer = "none" -> Num(0)
                   [] args.optimizer \in {"adam", "adamw", "lamb"} -> Num(4)
                   [] args.optimizer = "adafactor" -> Dec(15, 10)
    IN IF Sign(args.parameterCount) <= 0
       THEN result.value = Zero64
       ELSE result.value = DoubleMul(WeightOfCall, ToDouble(fixed))

\* C20 witness: adafactor on 7e9 parameters of 32 bits takes one and a half
\* times the weight memory, which is positive.
C20_Witness ==
  /\ op = "calculateOptimizerMemoryGB"
  /\ args.parameterCount = Mul(Num(7), Billion)
  /\ args.weightPrecisionBits = Num(32)
  /\ args.optimizer = "adafactor"
  /\ WeightOfCall.s = 1
  /\ result.value = DoubleMul(WeightOfCall, ToDouble(Dec(3, 2)))
  /\ result.value # WeightOfCall

\* C22: calculateWeightMemoryGB(p, bits) is p * (bits / 8) / 1024^3 for
\* p > 0 and 0 for p <= 0, with bitsToBytes(b) = b / 8 for b in {4, 8, 16, 32};
\* hence for p > 0 the result for 16 bits is twice the result for 8 bits,
\* and doubling the bit width doubles the result.
C22_WeightMemoryDoublesWithBitWidth ==
  op = "calculateWeightMemoryGB" =>
    LET p == args.parameterCount
        bits == args.weightPrecisionBits
    IN /\ bitsToBytes64(ToDouble(bits)) = ToDouble(Div(bits, Num(8)))
       /\ IF Sign(p) <= 0
          THEN result.value = Zero64
          ELSE /\ result.value =
                    ToDouble(Div(Mul(p, Div(bits, Num(8))), Pow(Num(1024), 3)))
               /\ Mul(Num(2), bits) \in HelperPrecisionBits =>
                    calculateWeightMemoryGB64(ToDouble(p), ToDouble(Mul(Num(2), bits)))
                      = DoubleMul(ToDouble(Num(2)), result.value)

\* C22 witness: 7e9 parameters of 8 bits, half the memory of 16 bits.
C22_Witness ==
  /\ op = "calculateWeightMemoryGB"
  /\ args.parameterCount = Mul(Num(7), Billion)
  /\ args.weightPrecisionBits = Num(8)
  /\ result.value.s = 1
  /\ calculateWeightMemoryGB64(ToDouble(args.parameterCount), ToDouble(Num(16)))
       = DoubleMul(ToDouble(Num(2)), result.value)

\* C23: for x > 0 and every precision, calculateMemoryFromBillions(x, bits)
\* is calculateWeightMemoryGB(x * 1e9, bits); for x <= 0 both are 0.
C23_MemoryFromBillionsIsWeightMemory ==
  op = "calculateMemoryFromBillions" =>
    LET x == ToDouble(args.paramsInBillions)
        bits == ToDouble(args.weightPrecisionBits)
        weight == calculateWeightMemoryGB64(DoubleMul(x, ToDouble(Billion)), bits)
    IN /\ result.value = weight
       /\ Sign(args.paramsInBillions) <= 0 => (result.value = Zero64 /\ weight = Zero64)

\* C23 witness: 1.3 billion parameters of 16 bits take a positive amount of
\* memory, that of 1.3 * 1e9 parameters.
C23_Witness ==
  /\ op = "calculateMemoryFromBillions"
  /\ args.paramsInBillions = Dec(13, 10)
  /\ args.weightPrecisionBits = Num(16)
  /\ result.value.s = 1
  /\ result.value =
       calculateWeightMemoryGB64(
         DoubleMul(ToDouble(Dec(13, 10)), ToDouble(Billion)), ToDouble(Num(16)))

(***************************************************************************)
(* Properties of the sizing functions, checked under SpecSizing            *)
(***************************************************************************)
KvCacheDimensions == {"sequenceLength", "batchSize", "numLayers", "hiddenSize"}

KvCacheReturned == op = "calculateKvCacheMemoryGB" /\ ~result.threw

\* the four dimensions of the last call are all positive
KvCachePositive == \A d \in KvCacheDimensions : Lt(Zero, args[d])

\* C21: calculateKvCacheMemoryGB returns 0 when one of sequenceLength,
\* batchSize, numLayers, hiddenSize is <= 0, and otherwise
\* 2 * numLayers * hiddenSize * (precisionBits / 8) * sequenceLength *
\* batchSize / 1024^3; between two positive values v and w of one dimension,
\* the others kept, the results are in the ratio v : w.
C21_KvCacheFormulaLinear ==
  KvCacheReturned =>
    /\ ~KvCachePositive => result.value = Zero
    /\ KvCachePositive =>
         /\ result.value =
              Div(Mul(Mul(Mul(Mul(Mul(Num(2), args.numLayers), args.hiddenSize),
                              Div(args.precisionBits, Num(8))),
                          args.sequenceLength),
                      args.batchSize),
                  Pow(Num(1024), 3))
         /\ \A d \in KvCacheDimensions :
              \A other \in KvCacheInputs :
                (/\ Lt(Zero, other[d])
                 /\ \A f \in DOMAIN args : f # d => other[f] = args[f])
                => Mul(calculateKvCacheMemoryGB(other), args[d])
                     = Mul(result.value, other[d])

\* C21 witness: 4096 tokens, batch 1, 32 layers of width 4096 at 16 bits take
\* 2 GB, and a zero batch takes none in another call.
C21_Witness ==
  /\ KvCacheReturned
  /\ args = [sequenceLength |-> Num(4096), batchSize |-> Num(1),
             numLayers |-> Num(32), hiddenSize |-> Num(4096),
             precisionBits |-> Num(16)]
  /\ result.value = Num(2)
  /\ calculateKvCacheMemoryGB([args EXCEPT !.batchSize = Num(3)]) = Num(6)

ThroughputReturned == op = "estimateThroughput" /\ ~result.threw

\* the efficiency the last call works with
EfficiencyOfCall ==
  IF args.efficiency = Undefined THEN Dec(3, 10) ELSE args.efficiency

ThroughputPositive ==
  /\ Lt(Zero, args.parameterCount)
  /\ Lt(Zero, args.gpuTFlops)
  /\ Lt(Zero, EfficiencyOfCall)

\* C24: estimateThroughput returns both fields 0 when parameterCount,
\* gpuTFlops or the efficiency is <= 0; otherwise tokensPerSecond is
\* gpuTFlops * 1e12 * efficiency / (2 * parameterCount), with 0.3 for an
\* omitted efficiency, both fields are > 0 and millisecondsPerToken is
\* 1000 / tokensPerSecond.
C24_ThroughputFormula ==
  ThroughputReturned =>
    /\ ~ThroughputPositive =>
         result.value = [tokensPerSecond |-> Zero, millisecondsPerToken |-> Zero]
    /\ ThroughputPositive =>
         /\ result.value.tokensPerSecond =
              Div(Mul(Mul(args.gpuTFlops, Pow(Num(10), 12)), EfficiencyOfCall),
                  Mul(Num(2), args.parameterCount))
         /\ Lt(Zero, result.value.tokensPerSecond)
         /\ Lt(Zero, result.value.millisecondsPerToken)
         /\ result.value.millisecondsPerToken =
              Div(Num(1000), result.value.tokensPerSecond)

\* C24 witness: 7e9 parameters on 40 TFLOPS with the efficiency omitted run
\* at 40e12 * 0.3 / 14e9 tokens per second.
C24_Witness ==
  /\ ThroughputReturned
  /\ args = [parameterCount |-> Mul(Num(7), Billion), gpuTFlops |-> Num(40),
             efficiency |-> Undefined]
  /\ result.value.tokensPerSecond = Div(Num(6000), Num(7))
  /\ result.value.millisecondsPerToken = Div(Num(7), Num(6))

DecoderFlopsReturned == op = "estimateDecoderFlops" /\ ~result.threw

DecoderFlopsPositive ==
  /\ Lt(Zero, args.numLayers)
  /\ Lt(Zero, args.hiddenSize)
  /\ Lt(Zero, args.sequenceLength)
  /\ Lt(Zero, args.vocabSize)

\* C25: estimateDecoderFlops returns 0 when numLayers, hiddenSize,
\* sequenceLength or vocabSize is <= 0, and otherwise
\* 4*numLayers*sequenceLength*hiddenSize^2
\* + 8*numLayers*sequenceLength*hiddenSize^2
\* + 2*sequenceLength*hiddenSize*vocabSize, which is > 0.
C25_DecoderFlopsFormula ==
  DecoderFlopsReturned =>
    /\ ~DecoderFlopsPositive => result.value = Zero
    /\ DecoderFlopsPositive =>
         LET L == args.numLayers
             S == args.sequenceLength
             H == args.hiddenSize
             V == args.vocabSize
         IN /\ result.value =
                 Add(Add(Mul(Num(4), Mul(L, Mul(S, Mul(H, H)))),
                         Mul(Num(8), Mul(L, Mul(S, Mul(H, H))))),
                     Mul(Num(2), Mul(S, Mul(H, V))))
            /\ Lt(Zero, result.value)

\* C25 witness: one layer of width 64 over one token and 32000 words costs
\* 4*4096 + 8*4096 + 2*64*32000 operations.
C25_Witness ==
  /\ DecoderFlopsReturned
  /\ args = [numLayers |-> Num(1), hiddenSize |-> Num(64),
             sequenceLength |-> Num(1), vocabSize |-> Num(32000)]
  /\ result.value = Num(4145152)

\* the tiers of the legacy recommendation, lowest first
LegacyTiers ==
  << [memory |-> Num(8),  flops |-> Billion,
      label  |-> "Minimum recommendation: NVIDIA GTX 1060 6GB"],
     [memory |-> Num(11), flops |-> Mul(Num(2), Billion),
      label  |-> "Minimum recommendation: NVIDIA GTX 1080 Ti"],
     [memory |-> Num(24), flops |-> Mul(Num(5), Billion),
      label  |-> "Minimum recommendation: NVIDIA RTX 2080 Ti"] >>

\* the tiers whose two ceilings bound the inputs of the last call
TiersBounding ==
  {i \in DOMAIN LegacyTiers :
     /\ Le(args.memoryInGB, LegacyTiers[i].memory)
     /\ Le(args.flops, LegacyTiers[i].flops)}

LegacyReturned == op = "recommendGPU" /\ ~result.threw

\* C26: recommendGPU returns the label of the lowest tier whose memory and
\* FLOPs ceilings both bound the inputs, the ceilings (8, 1e9), (11, 2e9) and
\* (24, 5e9) included, and the A100 label when an input exceeds the third
\* tier's ceiling; a tier with one ceiling exceeded is passed over.
C26_LegacyTiersFirstMatch ==
  LegacyReturned =>
    /\ TiersBounding # {} =>
         \E i \in TiersBounding :
           /\ \A j \in TiersBounding : i <= j
           /\ result.value = LegacyTiers[i].label
    /\ (\/ Lt(LegacyTiers[3].memory, args.memoryInGB)
        \/ Lt(LegacyTiers[3].flops, args.flops))
       => result.value = "Minimum recommendation: NVIDIA A100 or higher"
    /\ \A i \in DOMAIN LegacyTiers :
         (\/ Lt(LegacyTiers[i].memory, args.memoryInGB)
          \/ Lt(LegacyTiers[i].flops, args.flops))
         => \A j \in 1..i : result.value # LegacyTiers[j].label

\* C26 witness: 8 GB and 1e9 FLOPs sit on the first tier's ceilings and get
\* the first tier.
C26_Witness ==
  /\ LegacyReturned
  /\ args = [memoryInGB |-> Num(8), flops |-> Billion]
  /\ result.value = "Minimum recommendation: NVIDIA GTX 1060 6GB"

(***************************************************************************)
(* estimateTransformerParameters and numKeyValueHeads, checked in binary64 *)
(* under SpecHelpers                                                       *)
(***************************************************************************)
\* the last call was made with positive sizes and a positive numKeyValueHeads
GroupedQueryCalled ==
  /\ op = "estimateTransformerParameters"
  /\ Lt(Zero, args.vocabSize)
  /\ args.numKeyValueHeads # Undefined
  /\ Lt(Zero, args.numKeyValueHeads)

\* the result of the last call's config without its numKeyValueHeads
WithoutKeyValueHeads ==
  estimateTransformerParameters64(
    Config64([args EXCEPT !.numKeyValueHeads = Undefined]))

\* a divides b, for two positive integers
Divides(a, b) == IsFinite(Div(b, a)) /\ Div(b, a).d = 1 /\ Div(b, a).e2 >= 0 /\ Div(b, a).e5 >= 0

TransformerSizesPositive ==
  /\ op = "estimateTransformerParameters"
  /\ Lt(Zero, args.vocabSize)
  /\ Lt(Zero, args.hiddenSize)
  /\ Lt(Zero, args.numLayers)
  /\ Lt(Zero, args.numAttentionHeads)

\* C28: for positive vocabSize, hiddenSize, numLayers and numAttentionHeads
\* the result is a finite number >= 0, whatever numKeyValueHeads is,
\* 0 included.
C28_FiniteForEveryKeyValueHeads ==
  TransformerSizesPositive =>
    /\ IsFinite(result.value)
    /\ Sign(result.value) >= 0

(***************************************************************************)
(* The selection of recommendGpus, checked under SpecGpus                  *)
(***************************************************************************)
\* the last call asked for a positive amount of memory and at most n >= 0
\* GPUs
SelectionCalled ==
  /\ op = "recommendGpus"
  /\ Lt(Zero, args.requiredMemoryGB)
  /\ args.maxResults # Undefined
  /\ Le(Zero, args.maxResults)

\* the places of the table whose GPU has the memory the last call requires
FittingPlaces ==
  {i \in DOMAIN gpus : Ge(gpus[i].memory_gb, args.requiredMemoryGB)}

HeadroomAt(i) == Sub(gpus[i].memory_gb, args.requiredMemoryGB)

\* C29: for requiredMemoryGB > 0 and maxResults n >= 0, with k the number of
\* GPUs of the table that fit, the result has min(n, k) entries, which are
\* fitting GPUs of the table at distinct places; every fitting GPU left out
\* has at least the headroom of every returned one; returned GPUs of equal
\* headroom are in the order of their places; and the result is empty for
\* n >= 1 only when no GPU fits.
C29_TightestFits ==
  SelectionCalled =>
    LET n == Truncate(args.maxResults)
        k == Cardinality(FittingPlaces)
        returned == DOMAIN result.value
    IN /\ Len(result.value) = Min(n, k)
       /\ \E place \in [returned -> FittingPlaces] :
            /\ \A a, b \in returned : a # b => place[a] # place[b]
            /\ \A a \in returned :
                 /\ result.value[a].name = gpus[place[a]].name
                 /\ result.value[a].memoryGB = gpus[place[a]].memory_gb
                 /\ result.value[a].memoryHeadroomGB = HeadroomAt(place[a])
            /\ \A i \in FittingPlaces :
                 (\A a \in returned : place[a] # i) =>
                   \A a \in returned :
                     Ge(HeadroomAt(i), result.value[a].memoryHeadroomGB)
            /\ \A a, b \in returned :
                 (/\ a < b
                  /\ result.value[a].memoryHeadroomGB
                       = result.value[b].memoryHeadroomGB)
                 => place[a] < place[b]
       /\ (Len(result.value) = 0 /\ n >= 1) => k = 0

\* C29 witness: of four GPUs of which three fit, two are asked for: the two
\* 24 GB ones are returned in their table order and the 80 GB one, which
\* stands first in the table, is left out.
C29_Witness ==
  /\ SelectionCalled
  /\ args.maxResults = Num(2)
  /\ args.requiredMemoryGB = Num(24)
  /\ Len(gpus) = 4
  /\ gpus[1].name = "A100"
  /\ gpus[2].name = "L4"
  /\ gpus[3].name = "T4"
  /\ gpus[4].name = "RTX 3090"
  /\ Len(result.value) = 2
  /\ result.value[1].name = "L4"
  /\ result.value[2].name = "RTX 3090"

(***************************************************************************)
(* The legacy time and cost estimates on a GPU without compute or          *)
(* bandwidth, checked under SpecCost                                       *)
(***************************************************************************)
\* C30: estimateInferenceTime and estimateTrainingCost return a finite
\* number >= 0 for all finite inputs >= 0, gpu_tflops = 0 and
\* memory_bandwidth = 0 included.
C30_TimeAndCostFinite ==
  op \in {"estimateInferenceTime", "estimateTrainingCost"} =>
    /\ IsFinite(result.value)
    /\ Sign(result.value) >= 0

====
